---------------------------- MODULE Spec2Model ----------------------------
(***************************************************************************)
(* Pair-trading system: the per-pair signal/position state machine         *)
(* (strategy.py), the parallel statistics training pipeline (training.py,  *)
(* util.py), the cash/position ledger of the backtest (backtesting.py) and *)
(* one live trading session against the broker (opq.py).                   *)
(*                                                                         *)
(* Numbers.  Prices are positive integers.  beta, the spread and its mean  *)
(* and standard deviation are kept in HALF units (beta = beta2 / 2, ...),  *)
(* allocation fractions in QUARTER units, so that every quotient the code  *)
(* forms is an exact rational and int() is an exact truncation.            *)
(* A float is a record [k, v]: k = "fin" (a numpy float64 of value v),     *)
(* "nan", or "py" (a plain Python number of value v, as the literals of    *)
(* HoldingPair.__init__ are).                                              *)
(* In the backtest ledger cash is in cents, a CLOSE and the cost per share *)
(* in tenths of a cent, the cost per dollar in tenths, and sums are formed *)
(* exactly before round(..., 2) takes them to whole cents.                 *)
(***************************************************************************)
EXTENDS Integers, Sequences, FiniteSets, TLC

VARIABLES
    \* ---- PairTradeStrategy (strategy.py)
    threshold_exit,     \* self.threshold_exit
    thresholds_enter,   \* self.thresholds_enter
    threshold_stop,     \* self.threshold_stop
    allocations,        \* self.allocations, in quarters
    pairs,              \* self.pairs: sequence of HoldingPair records
    tx_history,         \* self.tx_history: sequence of <<today, orders>>
    today,              \* self.today
    last,               \* what the most recent call did (observation only)
    calls,              \* number of decide() calls so far
    asset_file,         \* the csv file of dump_pair_info / load_pair_info
    \* ---- training pipeline (training.py)
    files,              \* the output folder: file name -> rows written
    main,               \* the parent process: pc and the locals of main()
    q_in,               \* the work queue
    q_out,              \* the results queue
    worker,             \* per worker process: pc and the job in hand
    io,                 \* the coordinator process: pc and the locals of do_io()
    bad_jobs,           \* ids of the jobs whose statistic computation raises
    run,                \* number of the current program run
    scan,               \* the folder as the current run's scan found it,
                        \* and the ids put on the work queue (observation)
    \* ---- backtest ledger (backtesting.py)
    ledger,             \* cash, Strategy._positions, and what the most recent
                        \* settlement was given (observation)
    evaluate,           \* one backtest run: pc and the locals of evaluate()
    \* ---- live session (opq.py)
    app                 \* the TestApp instance: its fields, where the session
                        \* stands, and the calls it has made (observation)

svars == <<threshold_exit, thresholds_enter, threshold_stop, allocations,
           pairs, tx_history, today, last, calls, asset_file>>

tvars == <<files, main, q_in, q_out, worker, io, bad_jobs, run, scan>>

bvars == <<ledger, evaluate, app>>

vars == <<svars, tvars, bvars>>

--------------------------------------------------------------------------
(* Bounds *)

\* decide() is called at most this many times in one behaviour
MaxCalls == 2

\* the training program is run at most this many times on one output folder
MaxRuns == 2

\* os.cpu_count(): the number of worker processes
NumWorkers == 2

\* the largest number of stocks of a universe given to generate_jobs alone
MaxStocks == 5

\* the number of days whose orders are settled in one behaviour
MaxDays == 2

--------------------------------------------------------------------------
(* Arithmetic helpers: Python semantics *)

Abs(n) == IF n < 0 THEN -n ELSE n

Sign(n) == IF n > 0 THEN 1 ELSE IF n < 0 THEN -1 ELSE 0

\* int(n / d) for d > 0: Python's int() truncates toward zero
TruncDiv(n, d) == IF n >= 0 THEN n \div d ELSE -((-n) \div d)

\* floor(n / d) for d > 0
FloorDiv(n, d) == n \div d

\* round(n / 2): Python 3 rounds halves to the even neighbour
RoundHalf(n) ==
    IF n % 2 = 0 THEN n \div 2
    ELSE LET lo == n \div 2 IN IF lo % 2 = 0 THEN lo ELSE lo + 1

Fin(v) == [k |-> "fin", v |-> v]
NaN == [k |-> "nan", v |-> 0]
PyNum(v) == [k |-> "py", v |-> v]

RECURSIVE SumSeq(_)
SumSeq(s) == IF s = <<>> THEN 0 ELSE Head(s) + SumSeq(Tail(s))

\* s[:n] of Python
Prefix(s, n) == SubSeq(s, 1, IF n < Len(s) THEN n ELSE Len(s))

--------------------------------------------------------------------------
(* Inputs of the strategy: the price store, the constructor arguments *)

Stocks == {"A", "B", "C"}

\* The fed price store (Strategy.feed): CLOSE per stock and date.  Dates are
\* 1..5; date 6 is not in the index.
StockData ==
    [A |-> <<2, 2, 2, 2, 2>>,
     B |-> <<3, 4, 5, 4, 4>>,
     C |-> <<4, 4, 4, 4, 4>>]

\* The (start, end) windows analyze_spread is called with
Windows == {<<1, 3>>, <<4, 5>>, <<1, 1>>, <<6, 6>>}

\* Constructor arguments (pairs, thresholds, allocations); beta in halves,
\* allocations in quarters
PairLists ==
    {<<[Stock_1 |-> "A", Stock_2 |-> "B", beta |-> 2]>>,
     <<[Stock_1 |-> "A", Stock_2 |-> "B", beta |-> 1],
       [Stock_1 |-> "B", Stock_2 |-> "C", beta |-> 2]>>}

CtorArgs ==
    {[thresholds |-> <<1, 2, 3>>, allocations |-> <<4>>],
     [thresholds |-> <<4, -1, 3, 2>>, allocations |-> <<-1, 2>>],
     [thresholds |-> <<2, 1, 2, 3>>, allocations |-> <<2, 2>>]}

\* The cash amounts allocate_money is called with
CashSet == {80}

\* The stock_prices maps decide is called with: a stock without a price is
\* absent from the map
PriceChoices ==
    [A |-> {<<2>>, <<3>>},
     B |-> {<<2>>, <<4>>, <<5>>, <<7>>},
     C |-> {<<4>>, <<>>}]

PriceMaps ==
    {pm \in [Stocks -> UNION {PriceChoices[s] : s \in Stocks}] :
        \A s \in Stocks : pm[s] \in PriceChoices[s]}

HasPrice(stock_prices, s) == stock_prices[s] # <<>>

PriceOf(stock_prices, s) == stock_prices[s][1]

--------------------------------------------------------------------------
(* PairTradeStrategy.__init__ and HoldingPair.__init__ *)

HoldingPair(X, Y, beta) ==
    [X |-> X, Y |-> Y, beta |-> beta,
     spread_mean |-> PyNum(0), spread_std |-> PyNum(0),
     money_allocated |-> 0, position |-> 0,
     X_quantity |-> 0, Y_quantity |-> 0]

AbsAll(s) == [i \in 1..Len(s) |-> Abs(s[i])]

\* thresholds = sorted([abs(t) for t in thresholds])
SortedAbs(s) == SortSeq(AbsAll(s), LAMBDA a, b : a < b)

\* faulty variant: the sum of the fractions is not checked
CtorAsserts_NoSum(thresholds, allocs) ==
    /\ Len(thresholds) >= 1
    /\ Len(SubSeq(SortedAbs(thresholds), 2, Len(thresholds) - 1)) = Len(allocs)

\* The two asserts of the constructor
CtorAsserts(thresholds, allocs) ==
    /\ Len(thresholds) >= 1
    /\ Len(SubSeq(SortedAbs(thresholds), 2, Len(thresholds) - 1)) = Len(allocs)
    /\ SumSeq(AbsAll(allocs)) <= 4

Construct(pl, thresholds, allocs) ==
    LET th == SortedAbs(thresholds) IN
    /\ CtorAsserts(thresholds, allocs)
    /\ threshold_exit = th[1]
    /\ threshold_stop = th[Len(th)]
    /\ thresholds_enter = SubSeq(th, 2, Len(th) - 1)
    /\ allocations = AbsAll(allocs)
    /\ pairs = [i \in 1..Len(pl) |->
                  HoldingPair(pl[i].Stock_1, pl[i].Stock_2, pl[i].beta)]
    /\ tx_history = <<>>

\* The observation of a call: op, its arguments, the pairs before it, and
\* per processed pair the tier (levels), target position and deltas
NoCall ==
    [op |-> "init", stock_prices |-> <<>>, pre |-> <<>>, levels |-> <<>>,
     targets |-> <<>>, deltas |-> <<>>, orders |-> <<>>, raised |-> "no",
     repeat |-> FALSE, pre_tx |-> <<>>, args |-> <<>>]

\* no asset file has been written
NoAssetFile == [exists |-> FALSE, rows |-> <<>>, dumped |-> <<>>]

InitStrategy ==
    /\ \E pl \in PairLists, a \in CtorArgs :
          Construct(pl, a.thresholds, a.allocations)
    /\ today = 0
    /\ last = NoCall
    /\ calls = 0
    /\ asset_file = NoAssetFile

--------------------------------------------------------------------------
(* analyze_spread, allocate_money *)

\* df['spread'] over the dates of the window that are in the index (half units)
RECURSIVE SpreadSeries(_, _, _)
SpreadSeries(pair, d, end) ==
    IF d > end \/ d > Len(StockData[pair.X]) THEN <<>>
    ELSE <<2 * StockData[pair.Y][d] - pair.beta * StockData[pair.X][d]>>
         \o SpreadSeries(pair, d + 1, end)

ISqrt(n) == CHOOSE r \in 0..n : r * r <= n /\ (r + 1) * (r + 1) > n

\* pandas Series.mean(): NaN on an empty series
SeriesMean(ser) ==
    IF Len(ser) = 0 THEN NaN ELSE Fin(SumSeq(ser) \div Len(ser))

\* pandas Series.std() (ddof = 1): NaN on fewer than two points
SeriesStd(ser) ==
    IF Len(ser) < 2 THEN NaN
    ELSE LET m == SumSeq(ser) \div Len(ser)
             sq == [i \in 1..Len(ser) |-> (ser[i] - m) * (ser[i] - m)]
         IN Fin(ISqrt(SumSeq(sq) \div (Len(ser) - 1)))

analyze_spread(ps, start, end) ==
    [i \in 1..Len(ps) |->
        LET ser == SpreadSeries(ps[i], start, end) IN
        [ps[i] EXCEPT !.spread_mean = SeriesMean(ser),
                      !.spread_std = SeriesStd(ser)]]

\* money_each_pair = cash / len(self.pairs)
allocate_money(ps, cash) ==
    [i \in 1..Len(ps) |-> [ps[i] EXCEPT !.money_allocated = cash \div Len(ps)]]

--------------------------------------------------------------------------
(* detect_level *)

\* (cur_spread - pair.spread_mean) / pair.spread_std as numpy computes it:
\* x / 0 is +-inf, 0 / 0 and anything with NaN is NaN
SpreadZ(pair, x_price, y_price) ==
    LET cur_spread == 2 * y_price - pair.beta * x_price
        num == cur_spread - pair.spread_mean.v
    IN  IF pair.spread_mean.k = "nan" \/ pair.spread_std.k = "nan"
        THEN [k |-> "nan", n |-> 0, d |-> 1]
        ELSE IF pair.spread_std.v = 0
        THEN [k |-> IF num > 0 THEN "pinf" ELSE IF num < 0 THEN "ninf" ELSE "nan",
              n |-> 0, d |-> 1]
        ELSE [k |-> "fin", n |-> num, d |-> pair.spread_std.v]

\* With plain Python operands the same division raises ZeroDivisionError
ZeroDivision(pair, native) ==
    native /\ pair.spread_std.k = "py" /\ pair.spread_std.v = 0

\* faulty variant: the comparison is strict
AbsGE_Strict(z, t) ==
    CASE z.k = "fin" -> Abs(z.n) > t * z.d
      [] z.k = "nan" -> FALSE
      [] OTHER -> TRUE

\* abs(cur_spread_z) >= t
AbsGE(z, t) ==
    CASE z.k = "fin" -> Abs(z.n) >= t * z.d
      [] z.k = "nan" -> FALSE
      [] OTHER -> TRUE

\* cur_spread_z < 0
IsNeg(z) ==
    CASE z.k = "fin" -> z.n < 0
      [] z.k = "ninf" -> TRUE
      [] OTHER -> FALSE

thresholds_all == <<threshold_exit>> \o thresholds_enter \o <<threshold_stop>>

RECURSIVE CountLevel(_, _)
CountLevel(ths, z) ==
    IF ths = <<>> THEN 0
    ELSE (IF AbsGE(z, Head(ths)) THEN 1 ELSE 0) + CountLevel(Tail(ths), z)

\* faulty variant: beyond the last threshold the level is 0
LevelOfZ_StopIsZero(ths, z) ==
    LET level == CountLevel(ths, z)
    IN  IF level = Len(ths) THEN 0 ELSE IF IsNeg(z) THEN -level ELSE level

LevelOfZ(ths, z) ==
    LET level == CountLevel(ths, z) IN IF IsNeg(z) THEN -level ELSE level

detect_level(pair, x_price, y_price) ==
    LevelOfZ(thresholds_all, SpreadZ(pair, x_price, y_price))

--------------------------------------------------------------------------
(* decide *)

\* faulty variant: the stop-loss branch is missing
TargetPosition_NoStop(pair, level) ==
    IF level = 0 THEN 0
    ELSE IF Abs(level) = 1 THEN pair.position
    ELSE LET direction == IF level < 0 THEN 1 ELSE -1
         IN direction * (Abs(level) - 1)

\* faulty variant: long above the mean, short below it
TargetPosition_Flipped(pair, level) ==
    IF level = 0 THEN 0
    ELSE IF Abs(level) = 1 THEN pair.position
    ELSE IF Abs(level) = Len(thresholds_enter) + 2 THEN 0
    ELSE LET direction == IF level < 0 THEN -1 ELSE 1
         IN direction * (Abs(level) - 1)

\* faulty variant: an enter tier moves the position by one step instead of setting it
TargetPosition_Stepwise(pair, level) ==
    IF level = 0 THEN 0
    ELSE IF Abs(level) = 1 THEN pair.position
    ELSE IF Abs(level) = Len(thresholds_enter) + 2 THEN 0
    ELSE LET direction == IF level < 0 THEN 1 ELSE -1
         IN pair.position + direction

\* The target pair position derived from today's level
TargetPosition(pair, level) ==
    IF level = 0 THEN 0
    ELSE IF Abs(level) = 1 THEN pair.position
    ELSE IF Abs(level) = Len(thresholds_enter) + 2 THEN 0
    ELSE LET direction == IF level < 0 THEN 1 ELSE -1
         IN direction * (Abs(level) - 1)

\* faulty variant: the price of the hedge leg is left out of the pair price
PairPrice_YOnly(pair, x_price, y_price) == 2 * y_price

\* pair_price = y_price + abs(pair.beta) * x_price (half units)
PairPrice(pair, x_price, y_price) == 2 * y_price + Abs(pair.beta) * x_price

\* money_alloc = money_allocated * sum(allocations[:abs(target)]) (quarters)
MoneyAlloc(pair, target) ==
    pair.money_allocated * SumSeq(Prefix(allocations, Abs(target)))

\* faulty variant: the priced-leg quantity is never negative
YTarget_Unsigned(pair, target, pair_price) ==
    IF target # 0 THEN TruncDiv(MoneyAlloc(pair, target), 2 * pair_price)
    ELSE 0

\* Y_target_quantity: int(money_alloc / pair_price), signed by the target
YTarget(pair, target, pair_price) ==
    IF target > 0 THEN TruncDiv(MoneyAlloc(pair, target), 2 * pair_price)
    ELSE IF target < 0 THEN -TruncDiv(MoneyAlloc(pair, target), 2 * pair_price)
    ELSE 0

\* faulty variant: the hedge quantity is rounded instead of truncated
XTarget_Rounded(pair, Y_target_quantity) ==
    -RoundHalf(Y_target_quantity * pair.beta)

\* X_target_quantity = -int(Y_target_quantity * pair.beta)
XTarget(pair, Y_target_quantity) ==
    -TruncDiv(Y_target_quantity * pair.beta, 2)

\* faulty variant: the quantities are re-derived on every step
MustTrade_Always(pair, target) == TRUE

\* "Make trades if target position is different"
MustTrade(pair, target) == pair.position # target

\* faulty variant: the target quantities are ordered in full, on top of what
\* the pair holds
DecidePair_NotNetted(pair, x_price, y_price) ==
    LET level == detect_level(pair, x_price, y_price)
        target == TargetPosition(pair, level)
        trade == MustTrade(pair, target)
        Yt == YTarget(pair, target, PairPrice(pair, x_price, y_price))
        Xt == XTarget(pair, Yt)
        dX == IF trade THEN Xt ELSE 0
        dY == IF trade THEN Yt ELSE 0
    IN  [pair |-> [pair EXCEPT
                     !.position = IF trade THEN target ELSE @,
                     !.X_quantity = @ + dX,
                     !.Y_quantity = @ + dY],
         level |-> level, target |-> target, dX |-> dX, dY |-> dY]

\* One iteration of the loop body for a pair whose two prices are present
DecidePair(pair, x_price, y_price) ==
    LET level == detect_level(pair, x_price, y_price)
        target == TargetPosition(pair, level)
        trade == MustTrade(pair, target)
        Yt == YTarget(pair, target, PairPrice(pair, x_price, y_price))
        Xt == XTarget(pair, Yt)
        dX == IF trade THEN Xt - pair.X_quantity ELSE 0
        dY == IF trade THEN Yt - pair.Y_quantity ELSE 0
    IN  [pair |-> [pair EXCEPT
                     !.position = IF trade THEN target ELSE @,
                     !.X_quantity = @ + dX,
                     !.Y_quantity = @ + dY],
         level |-> level, target |-> target, dX |-> dX, dY |-> dY]

\* faulty variant: the entry is reset instead of kept
Touch_Reset(orders, s) == (s :> 0) @@ orders

\* orders[s] = orders.get(s, 0)
Touch(orders, s) == IF s \in DOMAIN orders THEN orders ELSE orders @@ (s :> 0)

NoOrders == [s \in {} |-> 0]

\* The loop over self.pairs from pair i on; stops at the first exception
RECURSIVE DecideLoop(_, _, _, _)
DecideLoop(i, acc, stock_prices, native) ==
    IF i > Len(acc.pairs) THEN acc
    ELSE
      LET pair == acc.pairs[i]
          touched == Touch(Touch(acc.orders, pair.X), pair.Y)
      IN  IF ~HasPrice(stock_prices, pair.X) \/ ~HasPrice(stock_prices, pair.Y)
          THEN [acc EXCEPT !.orders = touched, !.raised = "KeyError"]
          ELSE IF ZeroDivision(pair, native)
          THEN [acc EXCEPT !.orders = touched, !.raised = "ZeroDivisionError"]
          ELSE
            LET r == DecidePair(pair, PriceOf(stock_prices, pair.X),
                                PriceOf(stock_prices, pair.Y))
                o1 == [touched EXCEPT ![pair.X] = @ + r.dX]
                o2 == [o1 EXCEPT ![pair.Y] = @ + r.dY]
            IN  DecideLoop(i + 1,
                    [acc EXCEPT !.pairs[i] = r.pair,
                                !.orders = o2,
                                !.levels = Append(@, r.level),
                                !.targets = Append(@, r.target),
                                !.deltas = Append(@, <<r.dX, r.dY>>)],
                    stock_prices, native)

\* faulty variant: the two quantity changes are set to 0 once, before the
\* loop, so a pair that does not trade repeats the changes of the pair before
RECURSIVE DecideLoop_Carried(_, _, _, _)
DecideLoop_Carried(i, acc, stock_prices, native) ==
    IF i > Len(acc.pairs) THEN acc
    ELSE
      LET pair == acc.pairs[i]
          touched == Touch(Touch(acc.orders, pair.X), pair.Y)
      IN  IF ~HasPrice(stock_prices, pair.X) \/ ~HasPrice(stock_prices, pair.Y)
          THEN [acc EXCEPT !.orders = touched, !.raised = "KeyError"]
          ELSE IF ZeroDivision(pair, native)
          THEN [acc EXCEPT !.orders = touched, !.raised = "ZeroDivisionError"]
          ELSE
            LET r == DecidePair(pair, PriceOf(stock_prices, pair.X),
                                PriceOf(stock_prices, pair.Y))
                before == IF acc.deltas = <<>> THEN <<0, 0>>
                          ELSE acc.deltas[Len(acc.deltas)]
                dX == IF MustTrade(pair, r.target) THEN r.dX ELSE before[1]
                dY == IF MustTrade(pair, r.target) THEN r.dY ELSE before[2]
                o1 == [touched EXCEPT ![pair.X] = @ + dX]
                o2 == [o1 EXCEPT ![pair.Y] = @ + dY]
            IN  DecideLoop_Carried(i + 1,
                    [acc EXCEPT !.pairs[i] =
                                    [r.pair EXCEPT
                                       !.X_quantity = pair.X_quantity + dX,
                                       !.Y_quantity = pair.Y_quantity + dY],
                                !.orders = o2,
                                !.levels = Append(@, r.level),
                                !.targets = Append(@, r.target),
                                !.deltas = Append(@, <<dX, dY>>)],
                    stock_prices, native)

decide_Carried(ps, stock_prices, native) ==
    DecideLoop_Carried(1, [pairs |-> ps, orders |-> NoOrders, levels |-> <<>>,
                           targets |-> <<>>, deltas |-> <<>>, raised |-> "no"],
                       stock_prices, native)

decide(ps, stock_prices, native) ==
    DecideLoop(1, [pairs |-> ps, orders |-> NoOrders, levels |-> <<>>,
                   targets |-> <<>>, deltas |-> <<>>, raised |-> "no"],
               stock_prices, native)

--------------------------------------------------------------------------
(* dump_pair_info, load_pair_info: the pair list as a csv file.  A cell is  *)
(* the text pandas writes for a value; reading a cell gives back a plain    *)
(* Python number (the row of iterrows is an object Series).                 *)

\* The numbers a cell is parsed to
NumberRange ==
    LET c == CHOOSE c \in CashSet : \A d \in CashSet : d <= c
    IN  (-(2 * c))..(2 * c)

\* str() of an int
FormatInt(n) == IF n < 0 THEN "-" \o ToString(-n) ELSE ToString(n)

\* repr() of a float whose value is v halves
FormatHalf(v) ==
    (IF v < 0 THEN "-" ELSE "")
        \o ToString(Abs(v) \div 2)
        \o (IF v % 2 = 0 THEN ".0" ELSE ".5")

\* to_csv of a float attribute: an empty cell for NaN, the digits of an
\* int for a plain Python int (as HoldingPair.__init__ sets it)
FormatFloat(x) ==
    CASE x.k = "nan" -> ""
      [] x.k = "py" /\ x.v % 2 = 0 -> FormatInt(x.v \div 2)
      [] OTHER -> FormatHalf(x.v)

\* one row of the file: df.append(pair.__dict__)
FormatPair(pair) ==
    [X |-> pair.X, Y |-> pair.Y,
     beta |-> FormatHalf(pair.beta),
     spread_mean |-> FormatFloat(pair.spread_mean),
     spread_std |-> FormatFloat(pair.spread_std),
     money_allocated |-> FormatHalf(2 * pair.money_allocated),
     position |-> FormatInt(pair.position),
     X_quantity |-> FormatInt(pair.X_quantity),
     Y_quantity |-> FormatInt(pair.Y_quantity)]

\* read_csv of an integer cell
ParseIntCell(text) == CHOOSE n \in NumberRange : FormatInt(n) = text

\* read_csv of a numeric cell, in halves
ParseHalfCell(text) ==
    IF \E n \in NumberRange : FormatInt(n) = text
    THEN 2 * ParseIntCell(text)
    ELSE CHOOSE v \in NumberRange : FormatHalf(v) = text

\* faulty variant: an empty cell is read as 0
ParseFloatCell_EmptyIsZero(text) ==
    IF text = "" THEN PyNum(0) ELSE PyNum(ParseHalfCell(text))

\* read_csv of a float cell: NaN for an empty cell
ParseFloatCell(text) ==
    IF text = "" THEN NaN ELSE PyNum(ParseHalfCell(text))

\* pair = HoldingPair("", ""); setattr(pair, k, v) for every cell of the row
ParsePair(row) ==
    [X |-> row.X, Y |-> row.Y,
     beta |-> ParseHalfCell(row.beta),
     spread_mean |-> ParseFloatCell(row.spread_mean),
     spread_std |-> ParseFloatCell(row.spread_std),
     money_allocated |-> ParseHalfCell(row.money_allocated) \div 2,
     position |-> ParseIntCell(row.position),
     X_quantity |-> ParseIntCell(row.X_quantity),
     Y_quantity |-> ParseIntCell(row.Y_quantity)]

dump_pair_info(ps) == [i \in 1..Len(ps) |-> FormatPair(ps[i])]

load_pair_info(rows) == [i \in 1..Len(rows) |-> ParsePair(rows[i])]

--------------------------------------------------------------------------
(* Training pipeline: jobs and the output folder (training.py, util.py) *)

\* update_interval: "File I/O for every this many jobs done" (1000 in the
\* source, scaled down)
update_interval == 1

\* a new output file after this many flushes (50 in the source, scaled down)
flushes_per_file == 2

\* os.listdir(stock_data_folder), as stock codes, in directory order
Listing == <<3, 1, 2>>

Workers == 1..NumWorkers

\* The queue item None
None == [id |-> "None", Stock_1 |-> 0, Stock_2 |-> 0]

RECURSIVE JobsFrom(_, _, _, _)
JobsFrom(stock_codes, i, j, job_index) ==
    IF i > Len(stock_codes) THEN <<>>
    ELSE IF j > Len(stock_codes)
    THEN JobsFrom(stock_codes, i + 1, i + 2, job_index)
    ELSE <<[id |-> ToString(job_index),
            Stock_1 |-> stock_codes[i], Stock_2 |-> stock_codes[j]]>>
         \o JobsFrom(stock_codes, i, j + 1, job_index + 1)

\* faulty variant: the stock codes are not sorted
generate_jobs_Unsorted(listing) == JobsFrom(listing, 1, 2, 0)

generate_jobs(listing) ==
    JobsFrom(SortSeq(listing, LAMBDA a, b : a < b), 1, 2, 0)

OutName(n) == "out_" \o ToString(n) \o ".csv"

MergedName == "out_merged.csv"

\* faulty variant: the count stops one short, at the last name taken
NewOutputName_OffByOne(fs) ==
    LET n == CHOOSE n \in 0..Cardinality(DOMAIN fs) :
                 /\ OutName(n) \notin DOMAIN fs
                 /\ \A m \in 0..(n - 1) : OutName(m) \in DOMAIN fs
    IN  OutName(IF n > 0 THEN n - 1 ELSE 0)

\* "out_%s.csv" % num_prev_runs for the first number not taken
NewOutputName(fs) ==
    OutName(CHOOSE n \in 0..Cardinality(DOMAIN fs) :
                /\ OutName(n) \notin DOMAIN fs
                /\ \A m \in 0..(n - 1) : OutName(m) \in DOMAIN fs)

\* faulty variant: the rows are appended to what the file holds
WriteFile_Append(fs, name, rows) ==
    (name :> ((IF name \in DOMAIN fs THEN fs[name] ELSE <<>>) \o rows)) @@ fs

\* open(path, 'w') and DataFrame.to_csv(path): the file holds exactly rows
WriteFile(fs, name, rows) == (name :> rows) @@ fs

\* generate_new_output_file: the new name, created empty
generate_new_output_file(fs) == WriteFile(fs, NewOutputName(fs), <<>>)

\* os.listdir(output_folder), taken in name order
RECURSIVE OutNamesFrom(_, _)
OutNamesFrom(fs, n) ==
    IF n > Cardinality(DOMAIN fs) THEN <<>>
    ELSE (IF OutName(n) \in DOMAIN fs THEN <<OutName(n)>> ELSE <<>>)
         \o OutNamesFrom(fs, n + 1)

ListDir(fs) ==
    OutNamesFrom(fs, 0)
        \o (IF MergedName \in DOMAIN fs THEN <<MergedName>> ELSE <<>>)

\* The integer pandas parses from the text of an 'index' cell
ParseInt(text) ==
    CHOOSE n \in 0..(Len(Listing) * Len(Listing)) : ToString(n) = text

\* pd.read_csv raises on a file without rows (created empty, or written
\* from an empty DataFrame: no 'index' column)
Readable(content) == content # <<>>

\* df['index'] of pd.read_csv(fname)
IndexColumn(content) == [i \in 1..Len(content) |-> ParseInt(content[i].index)]

\* The scan of main(): jobs_done_ids[str(job_id)] = 0 for every id of every
\* readable file; an unreadable file is skipped
RECURSIVE ScanFiles(_, _)
ScanFiles(fs, names) ==
    IF names = <<>> THEN {}
    ELSE (IF Readable(fs[Head(names)])
          THEN {ToString(IndexColumn(fs[Head(names)])[i]) :
                    i \in 1..Len(fs[Head(names)])}
          ELSE {})
         \cup ScanFiles(fs, Tail(names))

\* faulty variant: the scan ends at the first unreadable file
RECURSIVE ScanFilesUntilError(_, _)
ScanFilesUntilError(fs, names) ==
    IF names = <<>> THEN {}
    ELSE IF ~Readable(fs[Head(names)]) THEN {}
    ELSE {ToString(IndexColumn(fs[Head(names)])[i]) :
              i \in 1..Len(fs[Head(names)])}
         \cup ScanFilesUntilError(fs, Tail(names))

JobsDoneIds_UntilError(fs) == ScanFilesUntilError(fs, ListDir(fs))

JobsDoneIds(fs) == ScanFiles(fs, ListDir(fs))

\* outstanding_jobs: the generated jobs whose id is not in jobs_done_ids
RECURSIVE Outstanding(_, _)
Outstanding(total_jobs, jobs_done_ids) ==
    IF total_jobs = <<>> THEN <<>>
    ELSE (IF Head(total_jobs).id \in jobs_done_ids THEN <<>>
          ELSE <<Head(total_jobs)>>)
         \o Outstanding(Tail(total_jobs), jobs_done_ids)

\* faulty variant: each readable file replaces what was read before it
RECURSIVE ConcatFiles_LastOnly(_, _)
ConcatFiles_LastOnly(fs, names) ==
    IF names = <<>> THEN <<>>
    ELSE LET rest == ConcatFiles_LastOnly(fs, Tail(names))
         IN  IF rest # <<>> THEN rest
             ELSE IF Readable(fs[Head(names)]) THEN fs[Head(names)] ELSE <<>>

\* pd.concat of the readable files, then drop_duplicates(subset='index',
\* keep='first')
RECURSIVE ConcatFiles(_, _)
ConcatFiles(fs, names) ==
    IF names = <<>> THEN <<>>
    ELSE (IF Readable(fs[Head(names)]) THEN fs[Head(names)] ELSE <<>>)
         \o ConcatFiles(fs, Tail(names))

RECURSIVE DropDuplicates(_, _)
DropDuplicates(rows, seen) ==
    IF rows = <<>> THEN <<>>
    ELSE IF ParseInt(Head(rows).index) \in seen
    THEN DropDuplicates(Tail(rows), seen)
    ELSE <<Head(rows)>>
         \o DropDuplicates(Tail(rows), seen \cup {ParseInt(Head(rows).index)})

\* util.merge_output: the target is created (emptied) first, then written
merge_output(fs, output_file) ==
    LET created == WriteFile(fs, output_file, <<>>)
        out_df == DropDuplicates(ConcatFiles(created, ListDir(created)), {})
    IN  WriteFile(created, output_file, out_df)

--------------------------------------------------------------------------
(* Backtest ledger: cash_change, net_worth (backtesting.py) and             *)
(* Strategy.positions (strategy.py)                                         *)

\* round(n / d, 0) for d > 0 and even: the nearest integer, a half going to
\* the even neighbour
RoundDiv(n, d) ==
    LET lo == n \div d
        rem == n % d
    IN  IF 2 * rem < d THEN lo
        ELSE IF 2 * rem > d THEN lo + 1
        ELSE IF lo % 2 = 0 THEN lo ELSE lo + 1

\* sum of f[c] over the codes c of a dict, in any order
RECURSIVE SumOver(_, _)
SumOver(f, codes) ==
    IF codes = {} THEN 0
    ELSE LET c == CHOOSE c \in codes : TRUE
         IN  f[c] + SumOver(f, codes \ {c})

\* config['INITIAL_CASH'], in cents
initial_cash == 1000000 * 100

\* The order maps a day is settled with (stock -> signed quantity)
OrderMaps ==
    {("A" :> 100),
     ("A" :> 1),
     ("A" :> 2 @@ "B" :> -3),
     ("A" :> -1 @@ "B" :> 0),
     ("B" :> 4)}

\* stock_data_single_day: CLOSE per stock in tenths of a cent; a stock
\* without a bar is absent
DayData ==
    {[A |-> <<50000>>, B |-> <<20000>>],
     [A |-> <<50003>>, B |-> <<20000>>],
     [A |-> <<50000>>, B |-> <<>>]}

\* tx_cost_per_share=0, tx_cost_per_dollar=0: the defaults of cash_change
DefaultCosts == [tx_cost_per_share |-> 0, tx_cost_per_dollar |-> 0]

\* (tx_cost_per_share in tenths of a cent, tx_cost_per_dollar in tenths)
TxCosts ==
    {DefaultCosts,
     [tx_cost_per_share |-> 7, tx_cost_per_dollar |-> 0],
     [tx_cost_per_share |-> 0, tx_cost_per_dollar |-> 1]}

\* tx_amount = -settlement_price * int(quantity), in tenths of a cent
TxAmount(settlement_price, quantity) == -(settlement_price * quantity)

\* faulty variant: the fee per share is charged on the number of shares
PerShareFee_Abs(quantity, tx_cost_per_share) ==
    Abs(quantity) * tx_cost_per_share

\* quantity * tx_cost_per_share, in tenths of a cent
PerShareFee(quantity, tx_cost_per_share) == quantity * tx_cost_per_share

\* what one order adds to `change`, in hundredths of a cent
OrderChange(settlement_price, quantity, costs) ==
    10 * TxAmount(settlement_price, quantity)
        - Abs(TxAmount(settlement_price, quantity)) * costs.tx_cost_per_dollar
        - 10 * PerShareFee(quantity, costs.tx_cost_per_share)

\* `change` before it is rounded, in hundredths of a cent
ExactChange(orders, stock_data, costs) ==
    SumOver([code \in DOMAIN orders |->
                OrderChange(PriceOf(stock_data, code), orders[code], costs)],
            DOMAIN orders)

\* cash_change: round(change, 2), in cents; raises for a stock without data
cash_change(orders, stock_data, costs) ==
    IF \E code \in DOMAIN orders : ~HasPrice(stock_data, code)
    THEN [raised |-> TRUE, change |-> 0]
    ELSE [raised |-> FALSE,
          change |-> RoundDiv(ExactChange(orders, stock_data, costs), 100)]

\* `worth` before it is rounded, in tenths of a cent
ExactWorth(pos, stock_data) ==
    SumOver([code \in DOMAIN pos |-> PriceOf(stock_data, code) * pos[code]],
            DOMAIN pos)

\* net_worth: round(worth, 2), in cents; raises for a stock without data
net_worth(pos, stock_data) ==
    IF \E code \in DOMAIN pos : ~HasPrice(stock_data, code)
    THEN [raised |-> TRUE, worth |-> 0]
    ELSE [raised |-> FALSE, worth |-> RoundDiv(ExactWorth(pos, stock_data), 10)]

\* faulty variant: the order map replaces the positions, as
\* positions(param_positions) without incremental=True does
positions_Replace(pos, param_positions) == param_positions

\* Strategy.positions(param_positions, incremental=True)
positions(pos, param_positions) ==
    [stock \in DOMAIN pos \cup DOMAIN param_positions |->
        (IF stock \in DOMAIN pos THEN pos[stock] ELSE 0)
            + (IF stock \in DOMAIN param_positions
               THEN param_positions[stock] ELSE 0)]

\* Strategy.__init__: self._positions = {}
NoPositions == [stock \in {} |-> 0]

NoSettlement ==
    [orders |-> NoPositions, stock_data |-> [s \in Stocks |-> <<>>],
     costs |-> DefaultCosts,
     cash |-> initial_cash, positions |-> NoPositions, raised |-> "no"]

NewLedger ==
    [cash |-> initial_cash, positions |-> NoPositions, days |-> 0,
     pre |-> NoSettlement]

LedgerIdle == ledger = NewLedger

\* cash += cash_change(orders, stock_data, ...), then
\* strategy.positions(orders, incremental=True), then the net worth of the
\* new positions.  An exception of cash_change leaves cash and positions as
\* they were.  ledger.pre keeps the arguments and the cash and positions
\* before the step.
LedgerAfter(l, orders, stock_data, costs) ==
    LET cc == cash_change(orders, stock_data, costs)
        pos == positions(l.positions, orders)
        pre == [orders |-> orders, stock_data |-> stock_data,
                costs |-> costs, cash |-> l.cash,
                positions |-> l.positions, raised |-> "no"]
    IN  IF cc.raised
        THEN [l EXCEPT !.days = @ + 1,
                       !.pre = [pre EXCEPT !.raised = "cash_change"]]
        ELSE [cash |-> l.cash + cc.change,
              positions |-> pos,
              days |-> l.days + 1,
              pre |-> [pre EXCEPT
                         !.raised = IF net_worth(pos, stock_data).raised
                                    THEN "net_worth" ELSE "no"]]

Settle(costs) ==
    /\ ledger.days < MaxDays
    /\ \E orders \in OrderMaps, stock_data \in DayData :
          ledger' = LedgerAfter(ledger, orders, stock_data, costs)

\* faulty variant: the configured costs are passed on to cash_change
ReplayCosts_Configured(config_costs) == config_costs

\* The costs evaluate settles a day with: it reads TX_COST_PER_SHARE and
\* TX_COST_PER_DOLLAR from the config but calls
\* cash_change(orders, stock_data_single_day) without them, so both take
\* their default 0
ReplayCosts(config_costs) == DefaultCosts

\* One day of evaluate's replay
EvaluateDay ==
    /\ Settle(ReplayCosts(evaluate.tx_costs))
    /\ UNCHANGED <<svars, tvars, evaluate, app>>

\* cash_change called with cost arguments, followed by the position update
ApplyOrders ==
    /\ \E costs \in TxCosts \ {DefaultCosts} : Settle(costs)
    /\ UNCHANGED <<svars, tvars, evaluate, app>>

--------------------------------------------------------------------------
(* One backtest run: evaluate (backtesting.py), util.load_stock_data          *)

\* The config of the run: dates as in StockData, cash in dollars.  The
\* backtesting window has MaxDays dates.
Config ==
    [TRAINING_START |-> 1, TRAINING_END |-> 2,
     BACKTESTING_START |-> 3, BACKTESTING_END |-> 2 + MaxDays,
     INITIAL_CASH |-> 80, MAX_LEVERAGE |-> 1]

AllDates == 1..Len(StockData.A)

\* The stock data folder: per stock <<the dates its file has a bar for>>,
\* or <<>> when the folder has no file for the stock.  Every file has the
\* bars of the training window.
Stores ==
    {[A |-> <<AllDates>>, B |-> <<AllDates>>, C |-> <<AllDates>>],
     [A |-> <<AllDates>>, B |-> <<AllDates \ {4}>>, C |-> <<AllDates>>],
     [A |-> <<AllDates>>, B |-> <<AllDates>>, C |-> <<AllDates \ {3}>>],
     [A |-> <<AllDates>>, B |-> <<AllDates>>, C |-> <<>>],
     [A |-> <<>>, B |-> <<AllDates>>, C |-> <<AllDates>>]}

NoStore == [s \in Stocks |-> <<>>]

\* stock_codes: the stocks of the pairs
StockCodesOf(ps) ==
    {ps[i].X : i \in 1..Len(ps)} \cup {ps[i].Y : i \in 1..Len(ps)}

\* faulty variant: a stock without a file is left out of the result
load_stock_data_SkipMissing(store, stock_codes) ==
    [raised |-> "no",
     data |-> [s \in Stocks |-> IF s \in stock_codes THEN store[s] ELSE <<>>]]

\* util.load_stock_data(folder, stock_codes): pd.read_csv raises on the
\* first file that is not there, and nothing is returned
load_stock_data(store, stock_codes) ==
    IF \E s \in stock_codes : store[s] = <<>>
    THEN [raised |-> "FileNotFoundError", data |-> NoStore]
    ELSE [raised |-> "no",
          data |-> [s \in Stocks |->
                      IF s \in stock_codes THEN store[s] ELSE <<>>]]

\* the stocks of the loaded dict
Loaded(stock_data) == {s \in Stocks : stock_data[s] # <<>>}

HasBar(stock_data, s, date) ==
    stock_data[s] # <<>> /\ date \in stock_data[s][1]

RECURSIVE DatesIn(_, _, _)
DatesIn(index, d, end) ==
    IF d > end THEN <<>>
    ELSE (IF d \in index THEN <<d>> ELSE <<>>) \o DatesIn(index, d + 1, end)

\* faulty variant: the dates are replayed latest first
TestingDates_Descending(stock_data, first) ==
    SortSeq(DatesIn(stock_data[first][1], Config.BACKTESTING_START,
                    Config.BACKTESTING_END),
            LAMBDA a, b : a > b)

\* testing_dates: the dates of the index of the first stock of the dict that
\* lie in the backtesting window, sorted
TestingDates(stock_data, first) ==
    SortSeq(DatesIn(stock_data[first][1], Config.BACKTESTING_START,
                    Config.BACKTESTING_END),
            LAMBDA a, b : a < b)

\* self._stock_data[s].loc[self.today]['CLOSE'] per stock: absent when the
\* stock has no bar for the date
PricesOn(stock_data, date) ==
    [s \in Stocks |->
        IF HasBar(stock_data, s, date) THEN <<StockData[s][date]>> ELSE <<>>]

\* stock_data_single_day, CLOSE in tenths of a cent
SingleDay(stock_data, date) ==
    [s \in Stocks |->
        IF HasBar(stock_data, s, date)
        THEN <<1000 * StockData[s][date]>> ELSE <<>>]

\* df.loc[date] raises for a stock of the dict without a bar for the date
SingleDayRaises(stock_data, date) ==
    \E s \in Loaded(stock_data) : ~HasBar(stock_data, s, date)

\* faulty variant: a short position adds its value to the numerator too
MarketValue_Gross(l, day) ==
    10 * l.cash
      + SumOver([s \in DOMAIN l.positions |->
                   Abs(l.positions[s]) * PriceOf(day, s)],
                DOMAIN l.positions)

\* market_value: cash plus quantity * CLOSE of the positions with
\* quantity > 0, not rounded; in tenths of a cent
MarketValue(l, day) ==
    10 * l.cash
      + SumOver([s \in DOMAIN l.positions |->
                   IF l.positions[s] > 0
                   THEN l.positions[s] * PriceOf(day, s) ELSE 0],
                DOMAIN l.positions)

\* leverage = market_value / total_net_worth, kept as the fraction
\* <<numerator, denominator>> in tenths of a cent
Leverage(l, day) ==
    <<MarketValue(l, day), 10 * (l.cash + net_worth(l.positions, day).worth)>>

EvaluateOff ==
    [pc |-> "off", tx_costs |-> DefaultCosts,
     store |-> NoStore, stock_data |-> NoStore, first |-> "",
     fed |-> FALSE, analyzed |-> 0, allocated |-> 0,
     testing_dates |-> <<>>, decided |-> <<>>,
     daily_tnw |-> <<>>, leverages |-> <<>>, raised |-> "no"]

EvaluateIdle == evaluate = EvaluateOff

\* TestApp.__init__: nothing started, no strategy, no prices, no orders
AppOff ==
    [pc |-> "off", started |-> FALSE, nextValidOrderId |-> 0,
     stock_prices |-> [s \in Stocks |-> <<>>],
     current_positions |-> NoPositions, orders_to_place |-> NoOrders,
     to_place |-> <<>>, placed |-> <<>>, raised |-> "no",
     events |-> <<>>, prev_file |-> NoAssetFile]

AppIdle == app = AppOff

--------------------------------------------------------------------------
(* The states in which one of the two subsystems is not running *)

MainOff ==
    [pc |-> "off", total_jobs |-> <<>>, jobs_done_ids |-> {},
     outstanding_jobs |-> <<>>, total_num_jobs |-> 0,
     output_filename |-> "", sentinels |-> 0]

WorkerOff == [pc |-> "off", job |-> None, nones |-> 0]

IoOff ==
    [pc |-> "off", num_workers |-> 0, output_df |-> <<>>,
     output_filename |-> "", num_jobs_completed |-> 0, nones |-> 0,
     received |-> {}]

NoFiles == [f \in {} |-> <<>>]

NoScan ==
    [files |-> NoFiles, listing |-> <<>>, enqueued |-> {}, failed |-> {},
     failed_prev |-> {}]

TrainingIdle ==
    /\ files = NoFiles
    /\ main = MainOff
    /\ q_in = <<>>
    /\ q_out = <<>>
    /\ worker = [w \in Workers |-> WorkerOff]
    /\ io = IoOff
    /\ bad_jobs = {}
    /\ run = 0
    /\ scan = NoScan

StrategyIdle ==
    /\ Construct(<<>>, <<1, 2, 3>>, <<4>>)
    /\ today = 0
    /\ last = NoCall
    /\ calls = 0
    /\ asset_file = NoAssetFile
    /\ LedgerIdle
    /\ EvaluateIdle
    /\ AppIdle

--------------------------------------------------------------------------
(* Actions of the strategy *)

ConfigUnchanged ==
    UNCHANGED <<threshold_exit, thresholds_enter, threshold_stop,
                allocations, today, asset_file>>

\* strategy.analyze_spread(start, end)
AnalyzeSpread ==
    \E w \in Windows :
        /\ pairs' = analyze_spread(pairs, w[1], w[2])
        /\ last' = [NoCall EXCEPT !.op = "analyze_spread", !.pre = pairs]
        /\ UNCHANGED <<tx_history, calls>>
        /\ ConfigUnchanged
        /\ UNCHANGED <<tvars, bvars>>

\* strategy.allocate_money(cash)
AllocateMoney ==
    \E cash \in CashSet :
        /\ Len(pairs) > 0
        /\ pairs' = allocate_money(pairs, cash)
        /\ last' = [NoCall EXCEPT !.op = "allocate_money", !.pre = pairs]
        /\ UNCHANGED <<tx_history, calls>>
        /\ ConfigUnchanged
        /\ UNCHANGED <<tvars, bvars>>

\* strategy.decide(stock_prices); native: the prices and beta are plain
\* Python numbers rather than numpy values
Decide ==
    /\ calls < MaxCalls
    /\ \E stock_prices \in PriceMaps, native \in BOOLEAN :
      \E r \in {decide(pairs, stock_prices, native)} :
        /\ calls' = calls + 1
        /\ pairs' = r.pairs
        /\ tx_history' = IF r.raised = "no"
                         THEN Append(tx_history, <<today, r.orders>>)
                         ELSE tx_history
        /\ last' = [op |-> "decide", stock_prices |-> stock_prices,
                    pre |-> pairs, levels |-> r.levels, targets |-> r.targets,
                    deltas |-> r.deltas, orders |-> r.orders,
                    raised |-> r.raised,
                    repeat |-> (last.op = "decide"
                                /\ last.stock_prices = stock_prices),
                    pre_tx |-> tx_history, args |-> <<>>]
        /\ ConfigUnchanged
        /\ UNCHANGED <<tvars, bvars>>

Init ==
    InitStrategy /\ TrainingIdle /\ LedgerIdle /\ EvaluateIdle /\ AppIdle

Next == AnalyzeSpread \/ AllocateMoney \/ Decide

Spec == Init /\ [][Next]_vars

--------------------------------------------------------------------------
(* Actions of the training pipeline.  Observation only: `nones` in a worker  *)
(* and in the coordinator counts the sentinels it has taken, `received` in  *)
(* the coordinator holds the ids of the results it has taken, scan.enqueued *)
(* the ids main has put on q_in, scan.failed the ids of the jobs whose      *)
(* computation has raised in this run and scan.failed_prev in the run       *)
(* before it; scan.files and scan.listing are the output folder and the     *)
(* stock data folder as the run found them.                                 *)

StrategyUnchanged == UNCHANGED <<svars, bvars>>

\* The sets of jobs whose computation raises, one chosen per run (the stock
\* data a computation fails on can be repaired between two runs)
BadJobChoices == {{}, {"1"}, {"0", "1"}}

\* A run is over, or hangs for good: a worker died, every other worker has
\* exited, and the coordinator waits on the empty results queue
RunOver == main.pc = "joined"

RunHung ==
    /\ main.pc = "join"
    /\ \E w \in Workers : worker[w].pc = "crashed"
    /\ \A w \in Workers : worker[w].pc \in {"exit", "crashed"}
    /\ io.pc = "loop"
    /\ q_out = <<>>

\* main(), up to step 4: generate the jobs, scan the output folder, derive
\* the outstanding jobs, create "the current output file".  A later run
\* starts from the folder the earlier runs left.
MainStart ==
    /\ main.pc = "off" \/ RunOver \/ RunHung
    /\ run < MaxRuns
    /\ run' = run + 1
    /\ LET total_jobs == generate_jobs(Listing)
           jobs_done_ids == JobsDoneIds(files)
           outstanding_jobs == Outstanding(total_jobs, jobs_done_ids)
       IN  main' = [pc |-> "spawn", total_jobs |-> total_jobs,
                    jobs_done_ids |-> jobs_done_ids,
                    outstanding_jobs |-> outstanding_jobs,
                    total_num_jobs |-> Len(outstanding_jobs),
                    output_filename |-> NewOutputName(files),
                    sentinels |-> 0]
    /\ files' = generate_new_output_file(files)
    /\ scan' = [files |-> files, listing |-> Listing, enqueued |-> {},
                 failed |-> {}, failed_prev |-> scan.failed]
    /\ q_in' = <<>>
    /\ q_out' = <<>>
    /\ worker' = [w \in Workers |-> WorkerOff]
    /\ io' = IoOff
    /\ bad_jobs' \in BadJobChoices
    /\ StrategyUnchanged

\* main(), step 5A: start the workers and the I/O process
MainSpawn ==
    /\ main.pc = "spawn"
    /\ main' = [main EXCEPT !.pc = "enqueue"]
    /\ worker' = [w \in Workers |-> [WorkerOff EXCEPT !.pc = "get"]]
    /\ io' = [IoOff EXCEPT !.pc = "init", !.num_workers = NumWorkers]
    /\ UNCHANGED <<files, q_in, q_out, bad_jobs, run, scan>>
    /\ StrategyUnchanged

\* q_in.put(outstanding_jobs.pop(0))
MainPut ==
    /\ main.pc = "enqueue"
    /\ main.outstanding_jobs # <<>>
    /\ q_in' = Append(q_in, Head(main.outstanding_jobs))
    /\ main' = [main EXCEPT !.outstanding_jobs = Tail(@)]
    /\ scan' = [scan EXCEPT !.enqueued = @ \cup {Head(main.outstanding_jobs).id}]
    /\ UNCHANGED <<files, q_out, worker, io, bad_jobs, run>>
    /\ StrategyUnchanged

\* for i in range(num_workers): q_in.put(None)
MainPutNone ==
    /\ main.pc = "enqueue"
    /\ main.outstanding_jobs = <<>>
    /\ q_in' = Append(q_in, None)
    /\ main' = [main EXCEPT
                  !.sentinels = @ + 1,
                  !.pc = IF main.sentinels + 1 = NumWorkers THEN "join" ELSE @]
    /\ UNCHANGED <<files, q_out, worker, io, bad_jobs, run, scan>>
    /\ StrategyUnchanged

\* for proc in processes: proc.join()
MainJoin ==
    /\ main.pc = "join"
    /\ \A w \in Workers : worker[w].pc \in {"exit", "crashed"}
    /\ io.pc = "exit"
    /\ main' = [main EXCEPT !.pc = "joined"]
    /\ UNCHANGED <<files, q_in, q_out, worker, io, bad_jobs, run, scan>>
    /\ StrategyUnchanged

\* faulty variant: the job is read and left on the work queue
WorkerGet_Peek(w) ==
    /\ worker[w].pc = "get"
    /\ q_in # <<>>
    /\ q_in' = IF Head(q_in) = None THEN Tail(q_in) ELSE q_in
    /\ worker' = [worker EXCEPT
                    ![w].job = Head(q_in),
                    ![w].pc = IF Head(q_in) = None THEN "got_none" ELSE "compute",
                    ![w].nones = IF Head(q_in) = None THEN @ + 1 ELSE @]
    /\ UNCHANGED <<files, main, q_out, io, bad_jobs, run, scan>>
    /\ StrategyUnchanged

\* do_worker: job = q_in.get()
WorkerGet(w) ==
    /\ worker[w].pc = "get"
    /\ q_in # <<>>
    /\ q_in' = Tail(q_in)
    /\ worker' = [worker EXCEPT
                    ![w].job = Head(q_in),
                    ![w].pc = IF Head(q_in) = None THEN "got_none" ELSE "compute",
                    ![w].nones = IF Head(q_in) = None THEN @ + 1 ELSE @]
    /\ UNCHANGED <<files, main, q_out, io, bad_jobs, run, scan>>
    /\ StrategyUnchanged

\* do_worker: "Mark the end of queue": q_out.put(None); break
WorkerPutNone(w) ==
    /\ worker[w].pc = "got_none"
    /\ q_out' = Append(q_out, None)
    /\ worker' = [worker EXCEPT ![w].pc = "exit"]
    /\ UNCHANGED <<files, main, q_in, io, bad_jobs, run, scan>>
    /\ StrategyUnchanged

\* faulty variant: the worker writes the row to the output folder itself
WorkerPut_WritesFile(w) ==
    /\ worker[w].pc = "compute"
    /\ worker[w].job.id \notin bad_jobs
    /\ files' = WriteFile(files, NewOutputName(files),
                          <<[index |-> worker[w].job.id,
                             Stock_1 |-> worker[w].job.Stock_1,
                             Stock_2 |-> worker[w].job.Stock_2]>>)
    /\ q_out' = Append(q_out, [index |-> worker[w].job.id,
                               Stock_1 |-> worker[w].job.Stock_1,
                               Stock_2 |-> worker[w].job.Stock_2])
    /\ worker' = [worker EXCEPT ![w].pc = "get"]
    /\ UNCHANGED <<main, q_in, io, bad_jobs, run, scan>>
    /\ StrategyUnchanged

\* do_worker: every metric computed; q_out.put(done_job)
WorkerPut(w) ==
    /\ worker[w].pc = "compute"
    /\ worker[w].job.id \notin bad_jobs
    /\ q_out' = Append(q_out, [index |-> worker[w].job.id,
                               Stock_1 |-> worker[w].job.Stock_1,
                               Stock_2 |-> worker[w].job.Stock_2])
    /\ worker' = [worker EXCEPT ![w].pc = "get"]
    /\ UNCHANGED <<files, main, q_in, io, bad_jobs, run, scan>>
    /\ StrategyUnchanged

\* faulty variant: the row of the job is put on q_out before the process dies
WorkerRaise_AfterPut(w) ==
    /\ worker[w].pc = "compute"
    /\ worker[w].job.id \in bad_jobs
    /\ q_out' = Append(q_out, [index |-> worker[w].job.id,
                               Stock_1 |-> worker[w].job.Stock_1,
                               Stock_2 |-> worker[w].job.Stock_2])
    /\ worker' = [worker EXCEPT ![w].pc = "crashed"]
    /\ scan' = [scan EXCEPT !.failed = @ \cup {worker[w].job.id}]
    /\ UNCHANGED <<files, main, q_in, io, bad_jobs, run>>
    /\ StrategyUnchanged

\* do_worker: calc_method raises; nothing catches it and the process dies
WorkerRaise(w) ==
    /\ worker[w].pc = "compute"
    /\ worker[w].job.id \in bad_jobs
    /\ worker' = [worker EXCEPT ![w].pc = "crashed"]
    /\ scan' = [scan EXCEPT !.failed = @ \cup {worker[w].job.id}]
    /\ UNCHANGED <<files, main, q_in, q_out, io, bad_jobs, run>>
    /\ StrategyUnchanged

\* do_io, before the loop
IoInit ==
    /\ io.pc = "init"
    /\ files' = generate_new_output_file(files)
    /\ io' = [io EXCEPT !.pc = "loop", !.output_df = <<>>,
                        !.output_filename = NewOutputName(files),
                        !.num_jobs_completed = 0]
    /\ UNCHANGED <<main, q_in, q_out, worker, bad_jobs, run, scan>>
    /\ StrategyUnchanged

\* faulty variant: the loop is left one sentinel early
IoLoopEnds_Early(num_workers) == num_workers <= 1

\* if num_workers == 0: break
IoLoopEnds(num_workers) == num_workers = 0

\* do_io: one turn of the loop on a sentinel
IoGetNone ==
    /\ io.pc = "loop"
    /\ q_out # <<>>
    /\ Head(q_out) = None
    /\ q_out' = Tail(q_out)
    /\ io' = [io EXCEPT
                !.num_workers = @ - 1,
                !.nones = @ + 1,
                !.pc = IF IoLoopEnds(io.num_workers - 1) THEN "finish" ELSE @]
    /\ UNCHANGED <<files, main, q_in, worker, bad_jobs, run, scan>>
    /\ StrategyUnchanged

\* faulty variant: the buffer is written only when the coordinator is about
\* to change files
IoGetResult_FlushOnRotate ==
    /\ io.pc = "loop"
    /\ q_out # <<>>
    /\ Head(q_out) # None
    /\ q_out' = Tail(q_out)
    /\ LET output_df == Append(io.output_df, Head(q_out))
           n == io.num_jobs_completed + 1
           rotate == n % (update_interval * flushes_per_file) = 0
           flushed == IF rotate THEN WriteFile(files, io.output_filename, output_df)
                      ELSE files
       IN  /\ files' = IF rotate THEN generate_new_output_file(flushed) ELSE flushed
           /\ io' = [io EXCEPT
                       !.num_jobs_completed = n,
                       !.received = @ \cup {Head(q_out).index},
                       !.output_df = IF rotate THEN <<>> ELSE output_df,
                       !.output_filename = IF rotate THEN NewOutputName(flushed) ELSE @]
    /\ UNCHANGED <<main, q_in, worker, bad_jobs, run, scan>>
    /\ StrategyUnchanged

\* do_io: one turn of the loop on a result: buffer it, flush every
\* update_interval results, switch files every flushes_per_file flushes
IoGetResult ==
    /\ io.pc = "loop"
    /\ q_out # <<>>
    /\ Head(q_out) # None
    /\ q_out' = Tail(q_out)
    /\ LET output_df == Append(io.output_df, Head(q_out))
           n == io.num_jobs_completed + 1
           flush == n % update_interval = 0
           rotate == flush /\ n % (update_interval * flushes_per_file) = 0
           flushed == IF flush THEN WriteFile(files, io.output_filename, output_df)
                      ELSE files
       IN  /\ files' = IF rotate THEN generate_new_output_file(flushed) ELSE flushed
           /\ io' = [io EXCEPT
                       !.num_jobs_completed = n,
                       !.received = @ \cup {Head(q_out).index},
                       !.output_df = IF rotate THEN <<>> ELSE output_df,
                       !.output_filename = IF rotate THEN NewOutputName(flushed) ELSE @]
    /\ UNCHANGED <<main, q_in, worker, bad_jobs, run, scan>>
    /\ StrategyUnchanged

\* do_io, after the loop: the last flush, then merge_output
IoFinish ==
    /\ io.pc = "finish"
    /\ files' = merge_output(WriteFile(files, io.output_filename, io.output_df),
                             MergedName)
    /\ io' = [io EXCEPT !.pc = "exit"]
    /\ UNCHANGED <<main, q_in, q_out, worker, bad_jobs, run, scan>>
    /\ StrategyUnchanged

TrainInit ==
    /\ StrategyIdle
    /\ files = NoFiles
    /\ main = MainOff
    /\ q_in = <<>>
    /\ q_out = <<>>
    /\ worker = [w \in Workers |-> WorkerOff]
    /\ io = IoOff
    /\ bad_jobs = {}
    /\ run = 0
    /\ scan = NoScan

MainStep == MainSpawn \/ MainPut \/ MainPutNone \/ MainJoin

WorkerStep(w) ==
    WorkerGet(w) \/ WorkerPutNone(w) \/ WorkerPut(w) \/ WorkerRaise(w)

IoStep == IoInit \/ IoGetNone \/ IoGetResult \/ IoFinish

TrainNext ==
    \/ MainStart
    \/ MainStep
    \/ \E w \in Workers : WorkerStep(w)
    \/ IoStep

TrainSpec == TrainInit /\ [][TrainNext]_vars

\* Every started process is scheduled again and again; whether the program
\* is run once more is up to the user
TrainFairSpec ==
    /\ TrainSpec
    /\ WF_vars(MainStep)
    /\ \A w \in Workers : WF_vars(WorkerStep(w))
    /\ WF_vars(IoStep)

--------------------------------------------------------------------------
(* training.generate_jobs on its own, over stock data folders of up to      *)
(* MaxStocks files, listed in any order                                     *)

StockCodes == 1..MaxStocks

Listings ==
    {l \in UNION {[1..n -> StockCodes] : n \in 0..MaxStocks} :
        \A i, j \in DOMAIN l : l[i] = l[j] => i = j}

JobsInit ==
    /\ StrategyIdle
    /\ TrainingIdle

\* generate_jobs(stock_data_folder)
GenerateJobs ==
    /\ main.pc = "off"
    /\ \E listing \in Listings :
          /\ main' = [MainOff EXCEPT !.pc = "jobs",
                                     !.total_jobs = generate_jobs(listing)]
          /\ scan' = [NoScan EXCEPT !.listing = listing]
    /\ UNCHANGED <<files, q_in, q_out, worker, io, bad_jobs, run>>
    /\ StrategyUnchanged

JobsNext == GenerateJobs

JobsSpec == JobsInit /\ [][JobsNext]_vars

--------------------------------------------------------------------------
(* util.merge_output on its own, over output folders of any content: two   *)
(* part files and a merged file, each absent, empty or holding rows whose   *)
(* ids may repeat within the folder.  scan.files keeps the folder as it was *)
(* before the call.                                                         *)

ResultRow(id, x, y) == [index |-> id, Stock_1 |-> x, Stock_2 |-> y]

FileContents ==
    {<<>>,
     <<ResultRow("0", 1, 2)>>,
     <<ResultRow("1", 1, 3), ResultRow("0", 1, 2)>>,
     <<ResultRow("0", 7, 8), ResultRow("2", 2, 3)>>,
     <<ResultRow("1", 7, 9)>>}

Folders ==
    {(OutName(0) :> c0) @@ p1 @@ pm :
        c0 \in FileContents,
        p1 \in {NoFiles} \cup {(OutName(1) :> c) : c \in FileContents},
        pm \in {NoFiles} \cup {(MergedName :> c) : c \in FileContents}}

MergeInit ==
    /\ StrategyIdle
    /\ files \in Folders
    /\ main = MainOff
    /\ q_in = <<>>
    /\ q_out = <<>>
    /\ worker = [w \in Workers |-> WorkerOff]
    /\ io = IoOff
    /\ bad_jobs = {}
    /\ run = 0
    /\ scan = NoScan

\* merge_output(output_folder, os.path.join(output_folder, "out_merged.csv"))
MergeOutput ==
    /\ io.pc = "off"
    /\ files' = merge_output(files, MergedName)
    /\ io' = [IoOff EXCEPT !.pc = "merged"]
    /\ scan' = [NoScan EXCEPT !.files = files]
    /\ UNCHANGED <<main, q_in, q_out, worker, bad_jobs, run>>
    /\ StrategyUnchanged

MergeNext == MergeOutput

MergeSpec == MergeInit /\ [][MergeNext]_vars

--------------------------------------------------------------------------
(* The ledger alone: the orders of up to MaxDays days are settled *)

LedgerInit == StrategyIdle /\ TrainingIdle

LedgerNext == EvaluateDay \/ ApplyOrders

LedgerSpec == LedgerInit /\ [][LedgerNext]_vars

--------------------------------------------------------------------------
(* The days of evaluate's replay alone, under each configuration of the     *)
(* two transaction costs, with any orders and closes                        *)

ReplayCostInit ==
    /\ Construct(<<>>, <<1, 2, 3>>, <<4>>)
    /\ today = 0
    /\ last = NoCall
    /\ calls = 0
    /\ asset_file = NoAssetFile
    /\ LedgerIdle
    /\ AppIdle
    /\ TrainingIdle
    /\ \E costs \in TxCosts :
          evaluate = [EvaluateOff EXCEPT !.tx_costs = costs]

ReplayCostNext == EvaluateDay

ReplayCostSpec == ReplayCostInit /\ [][ReplayCostNext]_vars

--------------------------------------------------------------------------
(* One backtest run of a constructed strategy on one stock data folder *)

\* evaluate, lines 109-115: the stocks of the pairs are loaded and fed.  The
\* order of the dict is the order of list(set), which is not fixed: any
\* stock can be first.
EvaluateLoad ==
    /\ evaluate.pc = "load"
    /\ LET r == load_stock_data(evaluate.store, StockCodesOf(pairs))
       IN  IF r.raised # "no"
           THEN evaluate' = [evaluate EXCEPT !.pc = "aborted",
                                             !.raised = r.raised]
           ELSE \E first \in Loaded(r.data) :
                  evaluate' = [evaluate EXCEPT !.pc = "fed",
                                               !.stock_data = r.data,
                                               !.first = first,
                                               !.fed = TRUE]
    /\ UNCHANGED <<svars, tvars, ledger, app>>

\* strategy.analyze_spread(training_start, training_end)
EvaluateAnalyze ==
    /\ evaluate.pc = "fed"
    /\ pairs' = analyze_spread(pairs, Config.TRAINING_START,
                               Config.TRAINING_END)
    /\ last' = [NoCall EXCEPT !.op = "analyze_spread", !.pre = pairs]
    /\ evaluate' = [evaluate EXCEPT !.pc = "analyzed", !.analyzed = @ + 1]
    /\ UNCHANGED <<tx_history, calls>>
    /\ ConfigUnchanged
    /\ UNCHANGED <<tvars, ledger, app>>

\* strategy.allocate_money(initial_cash * max_leverage); cash = initial_cash;
\* testing_dates
EvaluateAllocate ==
    /\ evaluate.pc = "analyzed"
    /\ pairs' = allocate_money(pairs,
                               Config.INITIAL_CASH * Config.MAX_LEVERAGE)
    /\ last' = [NoCall EXCEPT !.op = "allocate_money", !.pre = pairs]
    /\ ledger' = [NewLedger EXCEPT
                    !.cash = 100 * Config.INITIAL_CASH,
                    !.pre = [NoSettlement EXCEPT
                               !.cash = 100 * Config.INITIAL_CASH]]
    /\ evaluate' = [evaluate EXCEPT
                      !.pc = "replay",
                      !.allocated = @ + 1,
                      !.testing_dates =
                          TestingDates(evaluate.stock_data, evaluate.first)]
    /\ UNCHANGED <<tx_history, calls>>
    /\ ConfigUnchanged
    /\ UNCHANGED <<tvars, app>>

\* One iteration of the loop over testing_dates: now(date), decide(), the
\* day's bars, cash_change, positions, net_worth, leverage.  An exception
\* leaves evaluate at the statement that raised it.
EvaluateReplay ==
    /\ evaluate.pc = "replay"
    /\ evaluate.testing_dates # <<>>
    /\ LET date == Head(evaluate.testing_dates)
           stock_prices == PricesOn(evaluate.stock_data, date)
           r == decide(pairs, stock_prices, FALSE)
           day == SingleDay(evaluate.stock_data, date)
           l == LedgerAfter(ledger, r.orders, day,
                            ReplayCosts(evaluate.tx_costs))
           seen == [evaluate EXCEPT !.testing_dates = Tail(@),
                                    !.decided = Append(@, date)]
       IN  /\ today' = date
           /\ calls' = calls + 1
           /\ pairs' = r.pairs
           /\ last' = [op |-> "decide", stock_prices |-> stock_prices,
                       pre |-> pairs, levels |-> r.levels,
                       targets |-> r.targets, deltas |-> r.deltas,
                       orders |-> r.orders, raised |-> r.raised,
                       repeat |-> FALSE, pre_tx |-> tx_history,
                       args |-> <<>>]
           /\ IF r.raised # "no"
              THEN /\ evaluate' = [seen EXCEPT !.pc = "aborted",
                                               !.raised = r.raised]
                   /\ UNCHANGED <<tx_history, ledger>>
              ELSE /\ tx_history' = Append(tx_history, <<date, r.orders>>)
                   /\ IF SingleDayRaises(evaluate.stock_data, date)
                      THEN /\ evaluate' = [seen EXCEPT !.pc = "aborted",
                                                       !.raised = "KeyError"]
                           /\ UNCHANGED ledger
                      ELSE /\ ledger' = l
                           /\ evaluate' =
                                IF l.pre.raised # "no"
                                THEN [seen EXCEPT !.pc = "aborted",
                                                  !.raised = "Exception"]
                                ELSE [seen EXCEPT
                                        !.daily_tnw =
                                            Append(@, l.cash
                                              + net_worth(l.positions, day).worth),
                                        !.leverages =
                                            Append(@, Leverage(l, day))]
    /\ UNCHANGED <<threshold_exit, thresholds_enter, threshold_stop,
                   allocations, asset_file>>
    /\ UNCHANGED <<tvars, app>>

\* The loop is over: the performance metrics are computed (daily_tnw[-1]
\* raises when no date was replayed)
EvaluateFinish ==
    /\ evaluate.pc = "replay"
    /\ evaluate.testing_dates = <<>>
    /\ evaluate' = IF evaluate.daily_tnw = <<>>
                   THEN [evaluate EXCEPT !.pc = "aborted",
                                         !.raised = "IndexError"]
                   ELSE [evaluate EXCEPT !.pc = "done"]
    /\ UNCHANGED <<svars, tvars, ledger, app>>

BacktestInit ==
    /\ InitStrategy
    /\ TrainingIdle
    /\ LedgerIdle
    /\ AppIdle
    /\ \E store \in Stores, costs \in TxCosts :
          evaluate = [EvaluateOff EXCEPT !.pc = "load", !.store = store,
                                         !.tx_costs = costs]

BacktestNext ==
    \/ EvaluateLoad
    \/ EvaluateAnalyze
    \/ EvaluateAllocate
    \/ EvaluateReplay
    \/ EvaluateFinish

BacktestSpec == BacktestInit /\ [][BacktestNext]_vars

--------------------------------------------------------------------------
(* The constructor alone: PairTradeStrategy(pairs, thresholds, allocations) *)

\* The thresholds arguments: in order, out of order, with a duplicate, with
\* a zero, with a negative value, too short
ThresholdArgs ==
    {<<1, 2, 3>>, <<1, 2, 3, 4>>, <<3, 1, 2>>, <<1, 1, 2>>, <<0, 1, 2>>,
     <<-1, 2, 3>>, <<1, 2>>, <<2>>, <<>>}

\* The allocations arguments, in quarters
AllocationArgs ==
    {<<4>>, <<1>>, <<2, 2>>, <<3, 2>>, <<-1, 2>>, <<-3, -2>>, <<5>>, <<>>}

PairListArgs == PairLists \cup {<<>>}

CtorInit ==
    /\ StrategyIdle
    /\ TrainingIdle

\* PairTradeStrategy(pl, thresholds, allocs): thresholds[0] raises on an
\* empty list, the asserts raise before self.pairs is assigned; a
\* constructor that raises produces no strategy
NewStrategy ==
    /\ last.op = "init"
    /\ \E pl \in PairListArgs, thresholds \in ThresholdArgs,
          allocs \in AllocationArgs :
          LET args == [pairs |-> pl, thresholds |-> thresholds,
                       allocations |-> allocs]
              th == SortedAbs(thresholds)
          IN  IF Len(thresholds) = 0 \/ ~CtorAsserts(thresholds, allocs)
              THEN /\ last' = [NoCall EXCEPT
                                 !.op = "__init__",
                                 !.args = args,
                                 !.raised = IF Len(thresholds) = 0
                                            THEN "IndexError"
                                            ELSE "AssertionError"]
                   /\ UNCHANGED <<threshold_exit, thresholds_enter,
                                  threshold_stop, allocations, pairs,
                                  tx_history>>
              ELSE /\ last' = [NoCall EXCEPT !.op = "__init__",
                                             !.args = args]
                   /\ threshold_exit' = th[1]
                   /\ threshold_stop' = th[Len(th)]
                   /\ thresholds_enter' = SubSeq(th, 2, Len(th) - 1)
                   /\ allocations' = AbsAll(allocs)
                   /\ pairs' = [i \in 1..Len(pl) |->
                                  HoldingPair(pl[i].Stock_1, pl[i].Stock_2,
                                              pl[i].beta)]
                   /\ tx_history' = <<>>
    /\ UNCHANGED <<today, calls, asset_file>>
    /\ UNCHANGED <<tvars, bvars>>

CtorNext == NewStrategy

CtorSpec == CtorInit /\ [][CtorNext]_vars

--------------------------------------------------------------------------
(* detect_level alone: two calls for one pair at two price points *)

\* The spread statistics of the pair the calls are made for (half units)
SpreadMeans == {Fin(0), Fin(3), NaN}

SpreadStds == {Fin(1), Fin(2), Fin(0), NaN, PyNum(0)}

\* The prices of Y the calls are made with; the price of X is 2
YPrices == 0..7

LevelInit == Init

\* detect_level(pair, 2, y1) and detect_level(pair, 2, y2) on the
\* constructed ladder; with plain Python numbers the division by a zero
\* spread_std raises
DetectLevel ==
    /\ last.op = "init"
    /\ \E m \in SpreadMeans, sd \in SpreadStds, y1, y2 \in YPrices,
          native \in BOOLEAN :
          LET pair == [HoldingPair("A", "B", 2) EXCEPT !.spread_mean = m,
                                                      !.spread_std = sd]
          IN  last' =
                IF ZeroDivision(pair, native)
                THEN [NoCall EXCEPT !.op = "detect_level",
                                    !.args = <<pair, y1, y2>>,
                                    !.raised = "ZeroDivisionError"]
                ELSE [NoCall EXCEPT !.op = "detect_level",
                                    !.args = <<pair, y1, y2>>,
                                    !.levels = <<detect_level(pair, 2, y1),
                                                 detect_level(pair, 2, y2)>>]
    /\ UNCHANGED <<threshold_exit, thresholds_enter, threshold_stop,
                   allocations, pairs, tx_history, today, calls, asset_file>>
    /\ UNCHANGED <<tvars, bvars>>

LevelNext == DetectLevel

LevelSpec == LevelInit /\ [][LevelNext]_vars

--------------------------------------------------------------------------
(* The strategy with its asset file: at any time the pair list is dumped    *)
(* and then loaded back                                                     *)

\* strategy.dump_pair_info(filename); asset_file.dumped keeps the pair list
\* as it was then (observation)
DumpPairInfo ==
    /\ ~asset_file.exists
    /\ asset_file' = [exists |-> TRUE, rows |-> dump_pair_info(pairs),
                      dumped |-> pairs]
    /\ last' = [NoCall EXCEPT !.op = "dump_pair_info", !.pre = pairs]
    /\ UNCHANGED <<threshold_exit, thresholds_enter, threshold_stop,
                   allocations, pairs, tx_history, today, calls>>
    /\ UNCHANGED <<tvars, bvars>>

\* strategy.load_pair_info(filename)
LoadPairInfo ==
    /\ asset_file.exists
    /\ last.op = "dump_pair_info"
    /\ pairs' = load_pair_info(asset_file.rows)
    /\ last' = [NoCall EXCEPT !.op = "load_pair_info", !.pre = pairs]
    /\ UNCHANGED <<threshold_exit, thresholds_enter, threshold_stop,
                   allocations, tx_history, today, calls, asset_file>>
    /\ UNCHANGED <<tvars, bvars>>

PairInfoInit == Init

PairInfoNext ==
    \/ ~asset_file.exists /\ Next
    \/ DumpPairInfo
    \/ LoadPairInfo

PairInfoSpec == PairInfoInit /\ [][PairInfoNext]_vars

--------------------------------------------------------------------------
(* One live session (opq.py): TestApp is connected to the broker, whose     *)
(* callbacks nextValidId, position and positionEnd drive it.  An exception  *)
(* that leaves a callback ends the session.  app.events lists the calls     *)
(* made so far, app.prev_file is the asset file as the session found it.    *)

\* The pair list the previous session left in the asset file
PrevPairLists ==
    LET ab == [HoldingPair("A", "B", 2) EXCEPT
                 !.spread_mean = Fin(4), !.spread_std = Fin(2)]
        bc == [HoldingPair("B", "C", 2) EXCEPT
                 !.spread_mean = Fin(2), !.spread_std = Fin(2)]
    IN  {<<[ab EXCEPT !.money_allocated = 80]>>,
         <<[ab EXCEPT !.money_allocated = 40, !.position = -1,
                      !.X_quantity = 4, !.Y_quantity = -4],
           [bc EXCEPT !.money_allocated = 40, !.spread_std = Fin(0)]>>,
         <<[ab EXCEPT !.money_allocated = 40],
           [bc EXCEPT !.money_allocated = 40]>>}

\* config["ASSET_FILE"] at the start of the session: not there, or as the
\* previous session wrote it
PrevAssetFiles ==
    {NoAssetFile}
        \cup {[exists |-> TRUE, rows |-> dump_pair_info(ps), dumped |-> ps] :
                 ps \in PrevPairLists}

\* The orderId of nextValidId
OrderIds == {1, 7}

\* What the broker reports in a position callback: int(position) of a stock
PositionReports == [stock : {"A", "B"}, position : {-4, 4}]

\* the keys of the orders dict in insertion order: X, then Y, of each pair
RECURSIVE OrderKeys(_, _)
OrderKeys(ps, seen) ==
    IF ps = <<>> THEN <<>>
    ELSE LET x == IF Head(ps).X \in seen THEN <<>> ELSE <<Head(ps).X>>
             y == IF Head(ps).Y \in seen \cup {Head(ps).X}
                  THEN <<>> ELSE <<Head(ps).Y>>
         IN  x \o y \o OrderKeys(Tail(ps), seen \cup {Head(ps).X, Head(ps).Y})

\* place_all_orders: the stocks an order is placed for ("if quantity == 0:
\* continue"), in the order of the loop
StocksToOrder(ps, orders) ==
    SelectSeq(OrderKeys(ps, {}), LAMBDA s : orders[s] # 0)

\* faulty variant: a failed submission is passed over and the loop goes on
AfterPlaceOrder_Swallowed(a, ok) ==
    IF ok
    THEN [a EXCEPT !.to_place = Tail(@),
                   !.placed = Append(@, <<a.nextValidOrderId, Head(a.to_place),
                                          a.orders_to_place[Head(a.to_place)]>>),
                   !.nextValidOrderId = @ + 1,
                   !.events = Append(@, "placeOrder")]
    ELSE [a EXCEPT !.to_place = Tail(@),
                   !.nextValidOrderId = @ + 1,
                   !.raised = "placeOrder"]

\* self.placeOrder(self.nextOrderId(), contract, order) for the next stock
\* of the loop: the order is submitted, or the call raises
AfterPlaceOrder(a, ok) ==
    IF ok
    THEN [a EXCEPT !.to_place = Tail(@),
                   !.placed = Append(@, <<a.nextValidOrderId, Head(a.to_place),
                                          a.orders_to_place[Head(a.to_place)]>>),
                   !.nextValidOrderId = @ + 1,
                   !.events = Append(@, "placeOrder")]
    ELSE [a EXCEPT !.pc = "dead",
                   !.nextValidOrderId = @ + 1,
                   !.raised = "placeOrder"]

SessionFrame == UNCHANGED <<tvars, ledger, evaluate>>

\* nextValidId(orderId): nextValidOrderId is set and start() is called.
\* start() returns at once when the app was started; else init_strategy
\* constructs the strategy from the config and loads the asset file
\* (pd.read_csv raises when it is not there), the prices are fetched (a
\* stock whose fetch failed is not in the dict) and the positions are
\* requested.
NextValidId ==
    /\ app.pc \in {"connected", "positions"}
    /\ \E orderId \in OrderIds :
         IF app.started
         THEN /\ app' = [app EXCEPT !.nextValidOrderId = orderId]
              /\ UNCHANGED svars
         ELSE \E a \in CtorArgs, prices \in PriceMaps :
              LET th == SortedAbs(a.thresholds)
                  begun == [app EXCEPT !.started = TRUE,
                                       !.nextValidOrderId = orderId]
              IN  /\ CtorAsserts(a.thresholds, a.allocations)
                  /\ threshold_exit' = th[1]
                  /\ threshold_stop' = th[Len(th)]
                  /\ thresholds_enter' = SubSeq(th, 2, Len(th) - 1)
                  /\ allocations' = AbsAll(a.allocations)
                  /\ tx_history' = <<>>
                  /\ IF ~asset_file.exists
                     THEN /\ pairs' = <<>>
                          /\ app' = [begun EXCEPT
                                       !.pc = "dead",
                                       !.raised = "FileNotFoundError"]
                          /\ last' = [NoCall EXCEPT
                                        !.op = "load_pair_info",
                                        !.pre = pairs,
                                        !.raised = "FileNotFoundError"]
                     ELSE /\ pairs' = load_pair_info(asset_file.rows)
                          /\ app' = [begun EXCEPT
                                       !.pc = "positions",
                                       !.stock_prices = prices,
                                       !.events = @ \o <<"load_pair_info",
                                                         "reqPositions">>]
                          /\ last' = [NoCall EXCEPT !.op = "load_pair_info",
                                                    !.pre = pairs]
                  /\ UNCHANGED <<today, calls, asset_file>>
    /\ SessionFrame

\* position(account, contract, position, avgCost)
Position ==
    /\ app.pc = "positions"
    /\ \E p \in PositionReports :
          /\ p.stock \notin DOMAIN app.current_positions
          /\ app' = [app EXCEPT
                       !.current_positions = (p.stock :> p.position) @@ @,
                       !.events = IF @[Len(@)] = "position" THEN @
                                  ELSE Append(@, "position")]
    /\ UNCHANGED svars
    /\ SessionFrame

\* positionEnd(), up to print_orders: the positions are given to the
\* strategy, decide(self.stock_prices) derives the orders.  The prices and
\* the loaded pair attributes are plain Python numbers.
PositionEnd ==
    /\ app.pc = "positions"
    /\ LET r == decide(pairs, app.stock_prices, TRUE)
           seen == [app EXCEPT !.events = @ \o <<"positionEnd", "decide">>]
       IN  /\ ledger' = [ledger EXCEPT !.positions = app.current_positions]
           /\ calls' = calls + 1
           /\ pairs' = r.pairs
           /\ last' = [op |-> "decide", stock_prices |-> app.stock_prices,
                       pre |-> pairs, levels |-> r.levels,
                       targets |-> r.targets, deltas |-> r.deltas,
                       orders |-> r.orders, raised |-> r.raised,
                       repeat |-> FALSE, pre_tx |-> tx_history,
                       args |-> <<>>]
           /\ IF r.raised # "no"
              THEN /\ app' = [seen EXCEPT !.pc = "dead", !.raised = r.raised]
                   /\ UNCHANGED tx_history
              ELSE /\ app' = [seen EXCEPT
                                !.pc = "place",
                                !.orders_to_place = r.orders,
                                !.to_place = StocksToOrder(pairs, r.orders)]
                   /\ tx_history' = Append(tx_history, <<today, r.orders>>)
    /\ ConfigUnchanged
    /\ UNCHANGED <<tvars, evaluate>>

\* positionEnd(), place_all_orders: one turn of the loop that places an order
PlaceOrder ==
    /\ app.pc = "place"
    /\ app.to_place # <<>>
    /\ \E ok \in BOOLEAN : app' = AfterPlaceOrder(app, ok)
    /\ UNCHANGED svars
    /\ SessionFrame

\* positionEnd(), after place_all_orders returned:
\* save_positions_to_file(asset_file), i.e. strategy.dump_pair_info
SavePositions ==
    /\ app.pc = "place"
    /\ app.to_place = <<>>
    /\ asset_file' = [exists |-> TRUE, rows |-> dump_pair_info(pairs),
                      dumped |-> pairs]
    /\ app' = [app EXCEPT !.pc = "done",
                          !.events = Append(@, "dump_pair_info")]
    /\ last' = [NoCall EXCEPT !.op = "dump_pair_info", !.pre = pairs]
    /\ UNCHANGED <<threshold_exit, thresholds_enter, threshold_stop,
                   allocations, pairs, tx_history, today, calls>>
    /\ SessionFrame

\* TestApp(config) is constructed and connected; no strategy exists yet
SessionInit ==
    /\ Construct(<<>>, <<1, 2, 3>>, <<4>>)
    /\ today = 0
    /\ last = NoCall
    /\ calls = 0
    /\ asset_file \in PrevAssetFiles
    /\ LedgerIdle
    /\ EvaluateIdle
    /\ TrainingIdle
    /\ app = [AppOff EXCEPT !.pc = "connected", !.prev_file = asset_file]

SessionNext ==
    \/ NextValidId
    \/ Position
    \/ PositionEnd
    \/ PlaceOrder
    \/ SavePositions

SessionSpec == SessionInit /\ [][SessionNext]_vars

--------------------------------------------------------------------------
(* Properties of decide and detect_level.  They read the observation `last`  *)
(* of the most recent decide call: pair i was processed by it iff            *)
(* i <= Len(last.levels); last.pre[i] is the pair before the call and        *)
(* pairs[i] the pair after it.                                               *)

Decided == last.op = "decide"

Processed == 1..Len(last.levels)

\* the prices the call saw for pair i
XPrice(i) == PriceOf(last.stock_prices, last.pre[i].X)
YPrice(i) == PriceOf(last.stock_prices, last.pre[i].Y)

\* the z-score of pair i in the call, as numerator and denominator; defined
\* when mean and std are numbers and std > 0
ZDefined(i) ==
    /\ last.pre[i].spread_mean.k # "nan"
    /\ last.pre[i].spread_std.k # "nan"
    /\ last.pre[i].spread_std.v > 0
ZNum(i) == 2 * YPrice(i) - last.pre[i].beta * XPrice(i) - last.pre[i].spread_mean.v
ZDen(i) == last.pre[i].spread_std.v

Ladder == <<threshold_exit>> \o thresholds_enter \o <<threshold_stop>>
NumEnter == Len(thresholds_enter)

\* c: the number of ladder entries t with t <= |z|
TierCount(i) ==
    Cardinality({j \in 1..Len(Ladder) : Ladder[j] * ZDen(i) <= Abs(ZNum(i))})

\* C1: for every z-score and ladder, detect_level returns the number c of
\* ladder entries <= |z| (0 <= c <= k+2), as +c when z >= 0 and -c when z < 0.
C1_DetectLevelCounts ==
    Decided =>
        \A i \in Processed :
            ZDefined(i) =>
                /\ TierCount(i) \in 0..(NumEnter + 2)
                /\ last.levels[i] =
                      IF ZNum(i) >= 0 THEN TierCount(i) ELSE -TierCount(i)

\* C1 witness: a negative z-score that sits exactly on an enter threshold
C1_Witness ==
    /\ Decided
    /\ \E i \in Processed :
          /\ ZDefined(i)
          /\ ZNum(i) < 0
          /\ last.levels[i] = -2
          /\ \E j \in 1..Len(Ladder) : Ladder[j] * ZDen(i) = Abs(ZNum(i))

\* C2: a step that sees |tier| = 0 or |tier| = k+2 leaves the pair flat
\* (level 0, both quantities 0) and emits minus the quantities held before.
C2_ExitAndStopFlatten ==
    Decided =>
        \A i \in Processed :
            (last.levels[i] = 0 \/ Abs(last.levels[i]) = NumEnter + 2) =>
                /\ pairs[i].position = 0
                /\ pairs[i].X_quantity = 0
                /\ pairs[i].Y_quantity = 0
                /\ last.deltas[i] =
                      <<-last.pre[i].X_quantity, -last.pre[i].Y_quantity>>

\* C2 witness: the stop tier is reached while both legs are held
C2_Witness ==
    /\ Decided
    /\ \E i \in Processed :
          /\ Abs(last.levels[i]) = NumEnter + 2
          /\ last.pre[i].position # 0
          /\ last.pre[i].X_quantity # 0
          /\ last.pre[i].Y_quantity # 0
          /\ pairs[i].Y_quantity = 0

\* C3: when the resolved target equals the current level (always so at
\* |tier| = 1) both deltas are zero and level and quantities are unchanged.
C3_NoChurn ==
    Decided =>
        \A i \in Processed :
            (last.targets[i] = last.pre[i].position) =>
                /\ last.deltas[i] = <<0, 0>>
                /\ pairs[i] = last.pre[i]
                /\ (Abs(last.levels[i]) = 1 => last.targets[i] = last.pre[i].position)

\* C3 witness: a held position is kept at |tier| = 1 although at today's
\* prices the target quantity would differ from the quantity held
C3_Witness ==
    /\ Decided
    /\ \E i \in Processed :
          /\ Abs(last.levels[i]) = 1
          /\ last.pre[i].position # 0
          /\ last.pre[i].Y_quantity # 0
          /\ last.pre[i].money_allocated > 0
          /\ YTarget(last.pre[i], last.pre[i].position,
                     PairPrice(last.pre[i], XPrice(i), YPrice(i)))
                # last.pre[i].Y_quantity

\* C4 as claimed: a tier with 2 <= |tier| <= k+1 sets the target position and
\* the stored level to sign(tier) * (|tier| - 1).
C4_Original ==
    Decided =>
        \A i \in Processed :
            (2 <= Abs(last.levels[i]) /\ Abs(last.levels[i]) <= NumEnter + 1) =>
                /\ last.targets[i] = Sign(last.levels[i]) * (Abs(last.levels[i]) - 1)
                /\ pairs[i].position = last.targets[i]

\* C4 amended: a tier with 2 <= |tier| <= k+1 sets the target position and
\* the stored level to -sign(tier) * (|tier| - 1) (short above the mean, long
\* below it); z = 2.5 with ladder [1,2,3] gives target position -1.
C4_EnterTierTarget ==
    Decided =>
        \A i \in Processed :
            (2 <= Abs(last.levels[i]) /\ Abs(last.levels[i]) <= NumEnter + 1) =>
                /\ last.targets[i] = -Sign(last.levels[i]) * (Abs(last.levels[i]) - 1)
                /\ pairs[i].position = last.targets[i]
                /\ (Ladder = <<1, 2, 3>> /\ ZDefined(i) /\ 2 * ZNum(i) = 5 * ZDen(i))
                      => last.targets[i] = -1

\* C4 witness: z = 2.5 on ladder [1,2,3] from a flat pair
C4_Witness ==
    /\ Decided
    /\ Ladder = <<1, 2, 3>>
    /\ \E i \in Processed :
          /\ ZDefined(i)
          /\ 2 * ZNum(i) = 5 * ZDen(i)
          /\ last.levels[i] = 2
          /\ last.pre[i].position = 0
          /\ pairs[i].position = -1

\* money = money_allocated * (sum of the first |target| fractions), quarters
ClaimMoney(i) ==
    last.pre[i].money_allocated
        * SumSeq(SubSeq(allocations, 1, Abs(last.targets[i])))

\* sign(target) * floor(money / pairPrice)
ClaimPricedQty(i) ==
    Sign(last.targets[i])
        * FloorDiv(ClaimMoney(i),
                   2 * (2 * YPrice(i) + Abs(last.pre[i].beta) * XPrice(i)))

\* C5 as claimed: on a step whose target differs from the level, the priced
\* leg becomes sign(target)*floor(money/pairPrice), the hedge leg
\* -round(thatQuantity*beta), and each delta is target quantity minus held.
C5_Original ==
    Decided =>
        \A i \in Processed :
            (last.targets[i] # last.pre[i].position) =>
                /\ pairs[i].Y_quantity = ClaimPricedQty(i)
                /\ pairs[i].X_quantity =
                      -RoundHalf(ClaimPricedQty(i) * last.pre[i].beta)
                /\ last.deltas[i] =
                      <<pairs[i].X_quantity - last.pre[i].X_quantity,
                        pairs[i].Y_quantity - last.pre[i].Y_quantity>>

\* C5 amended: as claimed, but the hedge leg is -int(thatQuantity*beta), the
\* product truncated toward zero rather than rounded.
C5_TargetQuantities ==
    Decided =>
        \A i \in Processed :
            (last.targets[i] # last.pre[i].position) =>
                LET q == ClaimPricedQty(i)
                    h == -Sign(q * last.pre[i].beta)
                            * (Abs(q * last.pre[i].beta) \div 2)
                IN  /\ pairs[i].Y_quantity = q
                    /\ pairs[i].X_quantity = h
                    /\ last.deltas[i] = <<h - last.pre[i].X_quantity,
                                          q - last.pre[i].Y_quantity>>

\* C5 witness: a held pair is re-targeted and quantity*beta is not an integer
C5_Witness ==
    /\ Decided
    /\ \E i \in Processed :
          /\ last.targets[i] # last.pre[i].position
          /\ last.targets[i] # 0
          /\ last.pre[i].Y_quantity # 0
          /\ (pairs[i].Y_quantity * last.pre[i].beta) % 2 = 1
          /\ pairs[i].Y_quantity # last.pre[i].Y_quantity

\* C6: a decide call that repeats the previous call's prices with nothing in
\* between yields all-zero deltas and leaves every pair as the first call
\* left it.
C6_DecideIdempotent ==
    (Decided /\ last.repeat) =>
        /\ \A i \in Processed : last.deltas[i] = <<0, 0>>
        /\ pairs = last.pre
        /\ (last.raised = "no" => \A s \in DOMAIN last.orders : last.orders[s] = 0)

\* C6 witness: the repeated call follows a call that traded
C6_Witness ==
    /\ Decided
    /\ last.repeat
    /\ last.raised = "no"
    /\ Len(tx_history) >= 2
    /\ \E s \in DOMAIN tx_history[Len(tx_history) - 1][2] :
          tx_history[Len(tx_history) - 1][2][s] # 0
    /\ \E i \in Processed : pairs[i].Y_quantity # 0

\* the pair's spread_std was zero or NaN when the call ran
StdUnusable(i) ==
    last.pre[i].spread_std.k = "nan" \/ last.pre[i].spread_std.v = 0

\* C7 as claimed: with spread_std zero or NaN the step returns zero deltas for
\* the pair, leaves its level and quantities alone, and raises nothing.
C7_Claim ==
    Decided =>
        \A i \in 1..Len(last.pre) :
            (StdUnusable(i)
               /\ HasPrice(last.stock_prices, last.pre[i].X)
               /\ HasPrice(last.stock_prices, last.pre[i].Y)
               /\ i <= Len(last.levels) + 1) =>
                /\ last.raised # "ZeroDivisionError"
                /\ i \in Processed
                /\ last.deltas[i] = <<0, 0>>
                /\ pairs[i] = last.pre[i]

\* C8 as claimed: a decide call that finds a price missing leaves every pair
\* and the transaction history as they were before the call.
C8_Claim ==
    (Decided /\ last.raised = "KeyError") =>
        /\ pairs = last.pre
        /\ tx_history = last.pre_tx

--------------------------------------------------------------------------
(* Properties of the training pipeline *)

\* the ids in the 'index' column of the files the run's scan found
PresentAtScan ==
    UNION {{scan.files[f][i].index : i \in 1..Len(scan.files[f])} :
              f \in DOMAIN scan.files}

GeneratedIds == {main.total_jobs[k].id : k \in 1..Len(main.total_jobs)}

PendingIds == {main.outstanding_jobs[k].id : k \in 1..Len(main.outstanding_jobs)}

\* the ids of the jobs on the work queue or in a worker's hands
InWorkIds ==
    {q_in[k].id : k \in 1..Len(q_in)}
        \cup {worker[w].job.id : w \in Workers}

\* C9: in every run the jobs enqueued are exactly the generated jobs whose id
\* is in no file the output folder held at the start of the run; a job whose
\* id is in such a file is never enqueued or handed to a worker.
C9_EnqueuesExactlyUnpersisted ==
    (main.pc # "off") =>
        /\ scan.enqueued \cup PendingIds = GeneratedIds \ PresentAtScan
        /\ (main.pc \in {"join", "joined"} =>
                scan.enqueued = GeneratedIds \ PresentAtScan)
        /\ (InWorkIds \ {"None"}) \cap PresentAtScan = {}

\* C9 witness: a later run finds some ids persisted and enqueues the rest
C9_Witness ==
    /\ run >= 2
    /\ main.pc = "join"
    /\ PresentAtScan # {}
    /\ scan.enqueued # {}
    /\ scan.enqueued = GeneratedIds \ PresentAtScan

Crashed == \E w \in Workers : worker[w].pc = "crashed"

\* C10: with W workers and no failing computation, under fair scheduling
\* every worker takes exactly one sentinel and exits, the coordinator leaves
\* its loop only after W sentinels, and the parent's join returns.
C10_SentinelShutdown ==
    /\ [](\A w \in Workers :
            /\ worker[w].nones <= 1
            /\ (worker[w].pc = "exit" => worker[w].nones = 1))
    /\ [](io.pc \in {"finish", "exit"} => io.nones = NumWorkers)
    /\ [](main.pc = "joined" /\ ~Crashed =>
            /\ \A w \in Workers : worker[w].pc = "exit"
            /\ io.pc = "exit")
    /\ ((main.pc = "enqueue") ~> (main.pc = "joined" \/ Crashed))

\* C10 witness: a run with jobs to do has shut down in full
C10_Witness ==
    /\ main.pc = "joined"
    /\ ~Crashed
    /\ main.total_num_jobs > 0
    /\ \A w \in Workers : worker[w].pc = "exit" /\ worker[w].nones = 1
    /\ io.nones = NumWorkers

\* the ids in the 'index' column of a file of the output folder
FileIds(f) == {files[f][i].index : i \in 1..Len(files[f])}

\* C11: in a run without failures, whatever the interleaving, the coordinator
\* leaves its receive loop only with the result of every enqueued job, and
\* after the final flush and the merge the ids of the merged file are the ids
\* persisted before the run together with the ids of the outstanding jobs,
\* each once.
C11_AllResultsMerged ==
    /\ (io.pc \in {"finish", "exit"} =>
            /\ io.received = scan.enqueued
            /\ io.received = GeneratedIds \ PresentAtScan)
    /\ (io.pc = "exit" =>
            /\ MergedName \in DOMAIN files
            /\ FileIds(MergedName)
                 = PresentAtScan \cup (GeneratedIds \ PresentAtScan)
            /\ \A i, j \in 1..Len(files[MergedName]) :
                  files[MergedName][i].index = files[MergedName][j].index
                      => i = j)

\* C11 witness: a run that found ids persisted has merged them with its own
\* results, which did not arrive in id order
C11_Witness ==
    /\ io.pc = "exit"
    /\ PresentAtScan # {}
    /\ io.received # {}
    /\ \E i, j \in 1..Len(files[MergedName]) :
          /\ i < j
          /\ ParseInt(files[MergedName][i].index)
               > ParseInt(files[MergedName][j].index)

\* C12 as claimed: a computation that raises is confined to its job, so every
\* run that has started its processes is joined in the end, the failing run
\* included.
C12_Claim == (main.pc = "enqueue") ~> (main.pc = "joined")

\* C13: the id of a job a worker crashed on is in no file of the output
\* folder during that run, and the run after it has that job among its
\* outstanding jobs.
C13_CrashedJobRetried ==
    /\ \A w \in Workers : \A f \in DOMAIN files :
          worker[w].pc = "crashed" => worker[w].job.id \notin FileIds(f)
    /\ \A f \in DOMAIN files : scan.failed \cap FileIds(f) = {}
    /\ (main.pc # "off" =>
            scan.failed_prev \subseteq (scan.enqueued \cup PendingIds))

\* C13 witness: the job that crashed a worker in the run before has been
\* enqueued again, computed and merged
C13_Witness ==
    /\ main.pc = "joined"
    /\ scan.failed_prev # {}
    /\ scan.failed_prev \subseteq scan.enqueued
    /\ scan.failed_prev \subseteq FileIds(MergedName)

\* the rows of the buffer at the last time the count of completed jobs was a
\* multiple of update_interval
BufferAtLastMultiple ==
    SubSeq(io.output_df, 1,
           Len(io.output_df) - (io.num_jobs_completed % update_interval))

RowsPerFile == update_interval * flushes_per_file

\* the ids of all rows of all files of the output folder
PersistedIds == UNION {FileIds(f) : f \in DOMAIN files}

\* every result the coordinator has taken is in its buffer or in a file
NoResultDropped ==
    io.pc \in {"loop", "finish", "exit"} =>
        io.received \subseteq
            ({io.output_df[i].index : i \in 1..Len(io.output_df)}
                \cup PersistedIds)

\* no file other than the merged file holds more rows than are received
\* between two rotations
RowsBounded ==
    \A f \in DOMAIN files \ {MergedName} : Len(files[f]) <= RowsPerFile

\* a step of the pipeline leaves every file alone but the coordinator's
\* current file and the merged file
EarlierFilesKept ==
    \A f \in DOMAIN files :
        (f # MergedName /\ f # io.output_filename) =>
            (f \in DOMAIN files' /\ files'[f] = files[f])

\* a step in which the coordinator changes files has flushed the whole
\* buffer to the old file, takes a name no file had, and empties the buffer
RotationStep ==
    (io'.pc = "loop" /\ io'.output_filename # io.output_filename) =>
        /\ io'.output_filename \notin DOMAIN files
        /\ io'.output_df = <<>>
        /\ (io.pc = "loop" =>
               /\ io'.num_jobs_completed % RowsPerFile = 0
               /\ files'[io.output_filename]
                    = Append(io.output_df, Head(q_out)))

\* C15: every flushes_per_file flushes the coordinator, after flushing the
\* buffer to the current file, moves to a file name that did not exist and
\* empties its buffer; no received result is dropped, no flush or rotation
\* changes a file of an earlier rotation or run, and no output file holds
\* more than update_interval * flushes_per_file rows.
C15_RotationKeepsRows ==
    /\ [](NoResultDropped /\ RowsBounded)
    /\ [][EarlierFilesKept /\ RotationStep]_vars
    /\ [](io.pc = "loop" /\ io.num_jobs_completed > 0
            /\ io.num_jobs_completed % RowsPerFile = 0
              => io.output_df = <<>> /\ files[io.output_filename] = <<>>)

\* C15 witness: the coordinator has just changed files: the file it left
\* holds the full number of rows, the new one and the buffer are empty
C15_Witness ==
    /\ io.pc = "loop"
    /\ io.num_jobs_completed = RowsPerFile
    /\ io.output_df = <<>>
    /\ files[io.output_filename] = <<>>
    /\ \E f \in DOMAIN files \ {io.output_filename, MergedName} :
          /\ f \notin DOMAIN scan.files
          /\ Len(files[f]) = RowsPerFile

\* a step taken by the coordinator process
CoordinatorStep ==
    /\ io.pc \in {"init", "loop", "finish"}
    /\ io' # io
    /\ io'.pc # "off"

\* a step taken by a worker process
WorkerProcessStep == worker' # worker /\ main'.pc = main.pc

\* the step in which the parent, before it starts any child, creates "the
\* current output file" it never uses
ParentCreatesFile ==
    /\ main.pc # "spawn"
    /\ main'.pc = "spawn"
    /\ files' = generate_new_output_file(files)

\* C17 as claimed: the output folder changes only in steps of the
\* coordinator process.
C17_Original == [][files' # files => CoordinatorStep]_vars

\* C17: the output folder changes only in steps of the coordinator and in
\* the one step in which the parent, before any child process exists,
\* creates an empty output file; that file stays empty for the whole run, and
\* no step of a worker changes the folder.
C17_WritersOfTheFolder ==
    /\ [][files' # files => (CoordinatorStep \/ ParentCreatesFile)]_vars
    /\ [][WorkerProcessStep => files' = files]_vars
    /\ [](main.pc # "off" =>
            /\ main.output_filename \in DOMAIN files
            /\ files[main.output_filename] = <<>>
            /\ io.output_filename # main.output_filename)

\* C17 witness: at the end of a run the file the parent created is empty
\* and a file the coordinator created in this run holds rows
C17_Witness ==
    /\ main.pc = "joined"
    /\ files[main.output_filename] = <<>>
    /\ \E f \in DOMAIN files \ (DOMAIN scan.files \cup {MergedName}) :
          /\ f # main.output_filename
          /\ files[f] # <<>>

--------------------------------------------------------------------------
(* Properties of util.merge_output *)

\* the rows of the readable files of the folder before the call, in the
\* order in which the files are listed
RowsBeforeMerge == ConcatFiles(scan.files, ListDir(scan.files))

\* C16 as claimed: after the merge every id of a readable file of the folder
\* is in the merged file exactly once, with the row that comes first among
\* the rows of the files.
C16_Claim ==
    (io.pc = "merged") =>
        \A k \in 1..Len(RowsBeforeMerge) :
            LET id == RowsBeforeMerge[k].index
                first == CHOOSE i \in 1..k :
                            /\ RowsBeforeMerge[i].index = id
                            /\ \A j \in 1..(i - 1) :
                                  RowsBeforeMerge[j].index # id
                kept == {i \in 1..Len(files[MergedName]) :
                            files[MergedName][i].index = id}
            IN  /\ Cardinality(kept) = 1
                /\ \A i \in kept : files[MergedName][i] = RowsBeforeMerge[first]

--------------------------------------------------------------------------
(* Properties of training.generate_jobs *)

\* (a, b) comes before (c, d) in lexicographic order
PairBefore(a, b, c, d) == a < c \/ (a = c /\ b < d)

\* C18: for N distinct stock codes generate_jobs returns N(N-1)/2 jobs, one
\* for each unordered pair with the smaller code first, in lexicographic
\* order of the pairs, with the ids "0", "1", ... in that order, whatever the
\* order in which the folder lists the codes.
C18_GenerateJobs ==
    (main.pc = "jobs") =>
        LET codes == {scan.listing[i] : i \in 1..Len(scan.listing)}
            N == Len(scan.listing)
            jobs == main.total_jobs
        IN  /\ 2 * Len(jobs) = N * (N - 1)
            /\ \A k \in 1..Len(jobs) :
                  /\ jobs[k].id = ToString(k - 1)
                  /\ jobs[k].Stock_1 \in codes
                  /\ jobs[k].Stock_2 \in codes
                  /\ jobs[k].Stock_1 < jobs[k].Stock_2
            /\ \A a, b \in codes :
                  a < b => \E k \in 1..Len(jobs) :
                              jobs[k].Stock_1 = a /\ jobs[k].Stock_2 = b
            /\ \A k, l \in 1..Len(jobs) :
                  k < l => PairBefore(jobs[k].Stock_1, jobs[k].Stock_2,
                                      jobs[l].Stock_1, jobs[l].Stock_2)

\* C18 witness: four stocks, not listed in sorted order, give six jobs
C18_Witness ==
    /\ main.pc = "jobs"
    /\ Len(scan.listing) = 4
    /\ \E i \in 1..3 : scan.listing[i] > scan.listing[i + 1]
    /\ Len(main.total_jobs) = 6
    /\ main.total_jobs[6].id = "5"

--------------------------------------------------------------------------
(* Properties of the backtest ledger.  They read ledger.pre, the arguments  *)
(* of the most recent settlement and the cash and positions before it.      *)

\* the most recent settlement went through: cash_change raised nothing
Settled == ledger.days > 0 /\ ledger.pre.raised # "cash_change"

\* -delta*price - |delta*price|*txCostPerDollar - delta*txCostPerShare for
\* one entry of the order map, in hundredths of a cent
C19_Entry(code) ==
    LET delta == ledger.pre.orders[code]
        price == PriceOf(ledger.pre.stock_data, code)
    IN  -(10 * delta * price)
            - Abs(delta * price) * ledger.pre.costs.tx_cost_per_dollar
            - 10 * delta * ledger.pre.costs.tx_cost_per_share

C19_Sum ==
    SumOver([code \in DOMAIN ledger.pre.orders |-> C19_Entry(code)],
            DOMAIN ledger.pre.orders)

\* every delta was added to the held quantity, an absent entry counting 0
C19_DeltasAdded ==
    /\ DOMAIN ledger.positions
          = DOMAIN ledger.pre.positions \cup DOMAIN ledger.pre.orders
    /\ \A stock \in DOMAIN ledger.positions :
          ledger.positions[stock]
            = (IF stock \in DOMAIN ledger.pre.positions
               THEN ledger.pre.positions[stock] ELSE 0)
              + (IF stock \in DOMAIN ledger.pre.orders
                 THEN ledger.pre.orders[stock] ELSE 0)

\* C19 as stated: applying an order map changes cash by exactly the sum over
\* its entries of -delta*price - |delta*price|*txCostPerDollar
\* - delta*txCostPerShare, and adds every delta to the held quantity.
C19_Original ==
    Settled =>
        /\ 100 * (ledger.cash - ledger.pre.cash) = C19_Sum
        /\ C19_DeltasAdded

\* C19 (as the code has it): when every ordered stock has a close that day,
\* applying the order map changes cash by that sum rounded to the nearest
\* cent (round(change, 2)) and adds every delta to the held quantity,
\* creating absent entries at 0; when an ordered stock has no data the call
\* raises and neither cash nor positions change.
C19_CashChange ==
    /\ Settled =>
          /\ Abs(100 * (ledger.cash - ledger.pre.cash) - C19_Sum) <= 50
          /\ C19_DeltasAdded
    /\ (ledger.days > 0 /\ ledger.pre.raised = "cash_change") =>
          /\ ledger.cash = ledger.pre.cash
          /\ ledger.positions = ledger.pre.positions

\* a settlement with a per-share cost, on a sale, with a sum that is not a
\* whole number of cents, one stock already held and one not yet held
C19_Witness ==
    /\ Settled
    /\ ledger.pre.costs.tx_cost_per_share > 0
    /\ C19_Sum % 100 # 0
    /\ \E stock \in DOMAIN ledger.pre.orders : ledger.pre.orders[stock] < 0
    /\ DOMAIN ledger.pre.orders \ DOMAIN ledger.pre.positions # {}
    /\ \E stock \in DOMAIN ledger.pre.orders \cap DOMAIN ledger.pre.positions :
          ledger.pre.positions[stock] # 0 /\ ledger.pre.orders[stock] # 0

\* a settlement without transaction costs whose old and new positions can
\* both be valued at the settlement prices
ZeroCostSettled ==
    /\ Settled
    /\ ledger.pre.costs = DefaultCosts
    /\ ledger.pre.raised = "no"
    /\ ~net_worth(ledger.pre.positions, ledger.pre.stock_data).raised

\* cash + net_worth(positions, P) before and after, P the settlement prices
NetWorthBefore ==
    ledger.pre.cash
        + net_worth(ledger.pre.positions, ledger.pre.stock_data).worth

NetWorthAfter ==
    ledger.cash + net_worth(ledger.positions, ledger.pre.stock_data).worth

\* every price involved is a whole number of cents
WholeCentPrices ==
    \A code \in DOMAIN ledger.positions :
        PriceOf(ledger.pre.stock_data, code) % 10 = 0

\* C20 as stated: with zero transaction costs, applying any order map at
\* prices P leaves the net worth evaluated at P unchanged.
C20_Original == ZeroCostSettled => NetWorthAfter = NetWorthBefore

\* C20 (as the code has it): with zero transaction costs the net worth at
\* the settlement prices is unchanged when the prices are whole cents, and
\* moves by at most one cent otherwise (the cash change and the two worths
\* are each rounded to 2 decimals); cash 1,000,000 and buying 100 at 50
\* gives cash 995,000 and net worth 1,000,000.
C20_NetWorthKept ==
    ZeroCostSettled =>
        /\ WholeCentPrices => NetWorthAfter = NetWorthBefore
        /\ Abs(NetWorthAfter - NetWorthBefore) <= 1
        /\ ( /\ ledger.pre.cash = 1000000 * 100
             /\ ledger.pre.positions = NoPositions
             /\ ledger.pre.orders = ("A" :> 100)
             /\ PriceOf(ledger.pre.stock_data, "A") = 50 * 1000 )
           => /\ ledger.cash = 995000 * 100
              /\ NetWorthAfter = 1000000 * 100

\* a zero-cost settlement at whole-cent prices that trades a stock already
\* held, long and short positions both present afterwards
C20_Witness ==
    /\ ZeroCostSettled
    /\ WholeCentPrices
    /\ ledger.cash # ledger.pre.cash
    /\ \E stock \in DOMAIN ledger.pre.orders \cap DOMAIN ledger.pre.positions :
          ledger.pre.positions[stock] # 0 /\ ledger.pre.orders[stock] # 0
    /\ \E stock \in DOMAIN ledger.positions : ledger.positions[stock] < 0
    /\ \E stock \in DOMAIN ledger.positions : ledger.positions[stock] > 0

--------------------------------------------------------------------------
(* Further properties of decide *)

\* the call returned its order map
Returned == Decided /\ last.raised = "no"

\* the delta of each leg of pair i in the call: what the call added to the
\* quantity the pair holds
XDelta(i) == pairs[i].X_quantity - last.pre[i].X_quantity
YDelta(i) == pairs[i].Y_quantity - last.pre[i].Y_quantity

\* the sum of the deltas of all pair legs on stock s
LegSum(s) ==
    SumSeq([i \in 1..Len(pairs) |->
              (IF last.pre[i].X = s THEN XDelta(i) ELSE 0)
                + (IF last.pre[i].Y = s THEN YDelta(i) ELSE 0)])

Perms(n) ==
    {p \in [1..n -> 1..n] : \A i, j \in 1..n : i # j => p[i] # p[j]}

Permute(ps, p) == [j \in 1..Len(ps) |-> ps[p[j]]]

\* C21: the order map returned by decide gives, for every stock of a pair,
\* the sum of the deltas of all pair legs on that stock, and the same call
\* on any permutation of the pair list returns the same map and leaves the
\* pairs in the same states (in the permuted order).
C21_OrdersAreLegSums ==
    Returned =>
        /\ DOMAIN last.orders
              = {last.pre[i].X : i \in 1..Len(last.pre)}
                  \cup {last.pre[i].Y : i \in 1..Len(last.pre)}
        /\ \A s \in DOMAIN last.orders : last.orders[s] = LegSum(s)
        /\ \A p \in Perms(Len(last.pre)), native \in BOOLEAN :
              LET r0 == decide(last.pre, last.stock_prices, native)
                  r == decide(Permute(last.pre, p), last.stock_prices, native)
              IN  /\ (r.raised = "no") <=> (r0.raised = "no")
                  /\ r.raised = "no" =>
                        /\ r.orders = last.orders
                        /\ r.pairs = Permute(pairs, p)

\* a returned call in which two pairs both trade the stock they share, so
\* that its order is the sum of two non-zero deltas
C21_Witness ==
    /\ Returned
    /\ \E i, j \in 1..Len(pairs) :
          /\ i # j
          /\ last.pre[i].Y = last.pre[j].X
          /\ YDelta(i) # 0
          /\ XDelta(j) # 0
          /\ YDelta(i) + XDelta(j) # 0
          /\ last.orders[last.pre[i].Y] = YDelta(i) + XDelta(j)

--------------------------------------------------------------------------
(* Properties of a backtest run.  Observation only: evaluate.analyzed and   *)
(* evaluate.allocated count the calls of analyze_spread and allocate_money, *)
(* evaluate.decided lists the dates decide was called for, evaluate.fed     *)
(* tells whether feed was called.                                           *)

\* the dates the replay is to visit: those of the index of the dict's first
\* stock that lie in the backtesting window
ReplayDates ==
    IF evaluate.first = "" THEN {}
    ELSE {d \in evaluate.stock_data[evaluate.first][1] :
            Config.BACKTESTING_START <= d /\ d <= Config.BACKTESTING_END}

\* the dates whose iteration ran to its end
CompletedDays ==
    IF evaluate.pc = "aborted" /\ evaluate.decided # <<>>
    THEN Len(evaluate.decided) - 1
    ELSE Len(evaluate.decided)

C22_Order ==
    /\ evaluate.analyzed <= 1
    /\ evaluate.decided # <<>> => evaluate.analyzed = 1
    /\ calls = Len(evaluate.decided)
    /\ \A i, j \in 1..Len(evaluate.decided) :
          i < j => evaluate.decided[i] < evaluate.decided[j]
    /\ \A i \in 1..Len(evaluate.decided) :
          /\ evaluate.decided[i] \in ReplayDates
          /\ \A d \in ReplayDates :
                d < evaluate.decided[i] =>
                    \E j \in 1..(i - 1) : evaluate.decided[j] = d
    /\ Len(evaluate.daily_tnw) = CompletedDays
    /\ Len(evaluate.leverages) = CompletedDays
    /\ evaluate.pc = "done" =>
          {evaluate.decided[i] : i \in 1..Len(evaluate.decided)} = ReplayDates

C22_StatsKept ==
    evaluate.pc = "replay" =>
        /\ Len(pairs') = Len(pairs)
        /\ \A i \in 1..Len(pairs) :
              /\ pairs'[i].spread_mean = pairs[i].spread_mean
              /\ pairs'[i].spread_std = pairs[i].spread_std

\* C22: in one backtest run analyze_spread is executed exactly once and
\* before the first decide; the replay visits the dates of the backtesting
\* window in strictly ascending order, with one decide call per date and
\* one net worth and one leverage recorded per date whose iteration ran to
\* its end; spread_mean and spread_std of every pair stay as they are
\* throughout the replay.
C22_ReplayInOrder == []C22_Order /\ [][C22_StatsKept]_vars

\* a run that finished after replaying at least two dates and trading
C22_Witness ==
    /\ evaluate.pc = "done"
    /\ Len(evaluate.decided) >= 2
    /\ Len(evaluate.daily_tnw) = Len(evaluate.decided)
    /\ \E s \in DOMAIN ledger.positions : ledger.positions[s] # 0

\* the stocks of the dict that have no bar for the date being replayed
NoBarToday ==
    IF evaluate.decided = <<>> THEN {}
    ELSE {s \in Loaded(evaluate.stock_data) :
            ~HasBar(evaluate.stock_data, s,
                    evaluate.decided[Len(evaluate.decided)])}

\* C23 as claimed: when a stock has no bar for a replayed date the run does
\* not abort, the pairs of that stock are left as they were, and the day is
\* recorded like any other.
C23_Claim ==
    NoBarToday # {} =>
        /\ evaluate.pc # "aborted"
        /\ \A i \in 1..Len(pairs) :
              (pairs[i].X \in NoBarToday \/ pairs[i].Y \in NoBarToday) =>
                  pairs[i] = last.pre[i]
        /\ Len(evaluate.daily_tnw) = Len(evaluate.decided)

\* a stock of a pair has no file in the stock data folder
MissingFile ==
    /\ evaluate.pc # "off"
    /\ \E s \in StockCodesOf(pairs) : evaluate.store[s] = <<>>

\* C24: if a stock of a pair has no file in the price store, the run aborts
\* with an error at the load, and nothing has taken effect then: no feed,
\* no analyze_spread, no allocate_money, no decide; the pairs are as
\* constructed and the ledger is untouched.
C24_AbortsBeforeAnyEffect ==
    MissingFile =>
        /\ evaluate.pc \in {"load", "aborted"}
        /\ evaluate.pc = "aborted" => evaluate.raised = "FileNotFoundError"
        /\ ~evaluate.fed
        /\ evaluate.analyzed = 0
        /\ evaluate.allocated = 0
        /\ evaluate.decided = <<>>
        /\ calls = 0
        /\ \A i \in 1..Len(pairs) :
              pairs[i] = HoldingPair(pairs[i].X, pairs[i].Y, pairs[i].beta)
        /\ tx_history = <<>>
        /\ today = 0
        /\ ledger = NewLedger

\* the run has aborted on a missing file although the file of another stock
\* of the pairs is there
C24_Witness ==
    /\ MissingFile
    /\ evaluate.pc = "aborted"
    /\ \E s \in StockCodesOf(pairs) : evaluate.store[s] # <<>>

--------------------------------------------------------------------------
(* Properties of the constructor.  last.args holds the arguments of the     *)
(* call, last.raised the exception it ended with.                           *)

Constructed == last.op = "__init__"

\* the sequence is strictly increasing and all positive
StrictlyIncreasingPositive(th) ==
    /\ \A i \in 1..Len(th) : th[i] > 0
    /\ \A i \in 1..(Len(th) - 1) : th[i] < th[i + 1]

\* C25 as claimed: constructing the strategy with a threshold sequence that
\* is not strictly increasing and all positive fails with an error.
C25_Claim ==
    (Constructed /\ ~StrictlyIncreasingPositive(last.args.thresholds)) =>
        last.raised # "no"

\* the number of enter thresholds of a thresholds argument
NumEnterOf(th) == IF Len(th) >= 2 THEN Len(th) - 2 ELSE 0

\* C26: a construction whose allocation schedule has another length than
\* there are enter thresholds, or whose fractions sum to more than 1 (4
\* quarters), fails and no pair is created; a strategy that was constructed
\* has one non-negative fraction per enter threshold, summing to at most 1.
C26_AllocationsChecked ==
    Constructed =>
        /\ ( \/ Len(last.args.allocations) # NumEnterOf(last.args.thresholds)
             \/ SumSeq(last.args.allocations) > 4 )
           => (last.raised # "no" /\ pairs = <<>>)
        /\ last.raised = "no" =>
              /\ Len(allocations) = Len(thresholds_enter)
              /\ \A i \in 1..Len(allocations) : allocations[i] >= 0
              /\ SumSeq(allocations) <= 4

\* a construction with pairs and one fraction per enter threshold that
\* failed because the fractions sum to more than 1
C26_Witness ==
    /\ Constructed
    /\ last.raised = "AssertionError"
    /\ Len(last.args.pairs) > 0
    /\ Len(last.args.thresholds) >= 3
    /\ Len(last.args.allocations) = NumEnterOf(last.args.thresholds)
    /\ SumSeq(last.args.allocations) > 4
    /\ pairs = <<>>

--------------------------------------------------------------------------
(* Properties of detect_level alone.  last.args is <<pair, y1, y2>>,        *)
(* last.levels the two levels returned.                                     *)

LevelsDetected == last.op = "detect_level" /\ last.raised = "no"

\* the z-scores of the two calls
Z1 == SpreadZ(last.args[1], 2, last.args[2])
Z2 == SpreadZ(last.args[1], 2, last.args[3])

\* |z1| <= |z2|: never with a NaN, always below an infinity
AbsLE(z1, z2) ==
    /\ z1.k # "nan"
    /\ z2.k # "nan"
    /\ \/ z2.k \in {"pinf", "ninf"}
       \/ z1.k = "fin" /\ z2.k = "fin" /\ Abs(z1.n) * z2.d <= Abs(z2.n) * z1.d

\* C27: for a fixed ladder and any two z-scores z1, z2 with |z1| <= |z2|,
\* |detect_level(z1)| <= |detect_level(z2)|.
C27_LevelMonotonic ==
    LevelsDetected =>
        (AbsLE(Z1, Z2) => Abs(last.levels[1]) <= Abs(last.levels[2]))

\* two finite z-scores of opposite sign, the larger one in a higher tier
C27_Witness ==
    /\ LevelsDetected
    /\ Z1.k = "fin" /\ Z2.k = "fin"
    /\ Z1.n > 0 /\ Z2.n < 0
    /\ AbsLE(Z1, Z2) /\ ~AbsLE(Z2, Z1)
    /\ last.levels[1] > 0
    /\ Abs(last.levels[1]) < Abs(last.levels[2])

--------------------------------------------------------------------------
(* Properties of dump_pair_info and load_pair_info *)

\* the same number: both NaN, or the same value
SameNumber(a, b) ==
    \/ a.k = "nan" /\ b.k = "nan"
    \/ a.k # "nan" /\ b.k # "nan" /\ a.v = b.v

--------------------------------------------------------------------------
(* Properties of decide: reversals and the range of the level *)

\* pair i went from long to short or from short to long in the call
Reversed(i) == last.pre[i].position * pairs[i].position < 0

\* the pair as it would be with nothing held
Flat(pair) ==
    [pair EXCEPT !.position = 0, !.X_quantity = 0, !.Y_quantity = 0]

\* C29: when a decide step moves a pair directly from a positive level to a
\* negative one or the reverse, the quantities held after the step are
\* those the same step gives a flat pair at the same prices, and the deltas
\* are those quantities minus the old holdings.
C29_ReversalIsNetted ==
    Decided =>
        \A i \in Processed :
            Reversed(i) =>
                LET r == DecidePair(Flat(last.pre[i]), XPrice(i), YPrice(i))
                IN  /\ pairs[i].position = r.pair.position
                    /\ pairs[i].X_quantity = r.pair.X_quantity
                    /\ pairs[i].Y_quantity = r.pair.Y_quantity
                    /\ last.deltas[i]
                          = <<r.pair.X_quantity - last.pre[i].X_quantity,
                              r.pair.Y_quantity - last.pre[i].Y_quantity>>

\* a pair holding both legs was reversed in one call
C29_Witness ==
    /\ Decided
    /\ \E i \in Processed :
          /\ Reversed(i)
          /\ last.pre[i].X_quantity # 0
          /\ last.pre[i].Y_quantity # 0
          /\ pairs[i].Y_quantity * last.pre[i].Y_quantity < 0

\* C30: after every decide step the stored level of every pair satisfies
\* |level| <= k + 1 (k enter thresholds), and a pair whose tier reached the
\* stop tier in the step has level 0 after that same step.
C30_LevelInRange ==
    /\ \A i \in 1..Len(pairs) : Abs(pairs[i].position) <= NumEnter + 1
    /\ Decided =>
          \A i \in Processed :
              Abs(last.levels[i]) = NumEnter + 2 => pairs[i].position = 0

\* a pair at the deepest enter level was taken to 0 by a stop tier
C30_Witness ==
    /\ Decided
    /\ \E i \in Processed :
          /\ Abs(last.levels[i]) = NumEnter + 2
          /\ Abs(last.pre[i].position) = NumEnter
          /\ pairs[i].position = 0
          /\ pairs[i].Y_quantity = 0

--------------------------------------------------------------------------
(* Properties of decide: the stored level and what the pair holds *)

\* C31: in every state reached by decide steps from flat pairs, for every
\* pair the sign of the stored level agrees with the sign of the priced-leg
\* (Y) quantity: a positive level never with a short Y quantity, a negative
\* level never with a long one, and level 0 only with both leg quantities 0.
C31_LevelSignMatchesExposure ==
    \A i \in 1..Len(pairs) :
        /\ pairs[i].position > 0 => pairs[i].Y_quantity >= 0
        /\ pairs[i].position < 0 => pairs[i].Y_quantity <= 0
        /\ pairs[i].position = 0 =>
              pairs[i].X_quantity = 0 /\ pairs[i].Y_quantity = 0

\* a second decide call took a pair that was long on the priced leg to a
\* short holding of it
C31_Witness ==
    /\ Decided
    /\ calls = 2
    /\ \E i \in Processed :
          /\ last.pre[i].position > 0
          /\ last.pre[i].Y_quantity > 0
          /\ pairs[i].position < 0
          /\ pairs[i].Y_quantity < 0
          /\ pairs[i].X_quantity > 0

--------------------------------------------------------------------------
(* Properties of the leverage of a backtest day *)

\* a day of the replay ran to its end: its net worth and leverage are the
\* last ones recorded, and the ledger is as the day left it
DayRecorded ==
    /\ evaluate.pc \in {"replay", "done"}
    /\ evaluate.leverages # <<>>

\* the closes of the day recorded last, in tenths of a cent
LastDay ==
    SingleDay(evaluate.stock_data, evaluate.decided[Len(evaluate.decided)])

\* cash plus quantity * close over the stocks held long, in tenths of a cent
LongExposure ==
    10 * ledger.cash
      + SumSeq([i \in 1..3 |->
                  LET s == <<"A", "B", "C">>[i] IN
                  IF s \in DOMAIN ledger.positions /\ ledger.positions[s] > 0
                  THEN ledger.positions[s] * LastDay[s][1] ELSE 0])

\* the value of the short positions (a negative amount), tenths of a cent
ShortValue ==
    SumSeq([i \in 1..3 |->
              LET s == <<"A", "B", "C">>[i] IN
              IF s \in DOMAIN ledger.positions /\ ledger.positions[s] < 0
              THEN ledger.positions[s] * LastDay[s][1] ELSE 0])

C32_LastLeverage ==
    DayRecorded =>
        LET lev == evaluate.leverages[Len(evaluate.leverages)]
            tnw == evaluate.daily_tnw[Len(evaluate.daily_tnw)]
        IN  /\ Len(evaluate.leverages) = Len(evaluate.daily_tnw)
            /\ lev[2] = 10 * tnw
            /\ lev[1] = LongExposure
            /\ lev[1] = lev[2] - ShortValue

C32_EarlierKept ==
    /\ Len(evaluate'.leverages) >= Len(evaluate.leverages)
    /\ SubSeq(evaluate'.leverages, 1, Len(evaluate.leverages))
          = evaluate.leverages

\* C32: the leverage recorded for each replayed day is (cash + the sum of
\* quantity * close over the stocks with a strictly positive held quantity)
\* divided by that day's net worth; short positions add nothing to the
\* numerator, so the numerator is the net worth less the (negative) value of
\* the shorts.  A recorded leverage is never changed afterwards.
C32_Leverage == []C32_LastLeverage /\ [][C32_EarlierKept]_vars

\* a day was recorded with a long and a short position held, so that the
\* numerator differs from the net worth
C32_Witness ==
    /\ DayRecorded
    /\ \E s \in DOMAIN ledger.positions : ledger.positions[s] > 0
    /\ \E s \in DOMAIN ledger.positions : ledger.positions[s] < 0
    /\ evaluate.leverages[Len(evaluate.leverages)][1]
          > evaluate.leverages[Len(evaluate.leverages)][2]
    /\ Len(evaluate.leverages) >= 2

--------------------------------------------------------------------------
(* Properties of the scan of the output folder *)

\* the files the run's scan could not read: pd.read_csv raised on them
UnreadableAtScan ==
    {f \in DOMAIN scan.files : ~Readable(scan.files[f])}

\* no child process of the run has been started and nothing was enqueued
NothingStarted ==
    /\ \A w \in Workers : worker[w].pc = "off"
    /\ io.pc = "off"
    /\ q_in = <<>>
    /\ q_out = <<>>
    /\ scan.enqueued = {}

\* C33: when the scan of a run is done (main is about to start the child
\* processes) no worker and no coordinator has been started and no job has
\* been enqueued; and in every state of the run jobs_done_ids holds exactly
\* the ids of all rows of all files the folder held at the start of the run,
\* whatever empty or unreadable files the folder held besides them.
C33_ScanBeforeWork ==
    /\ main.pc = "spawn" => NothingStarted
    /\ main.pc # "off" => main.jobs_done_ids = PresentAtScan

\* the scan of a later run is done: the folder held an empty file that is
\* listed before a file with rows, and the ids of those rows were collected
C33_Witness ==
    /\ run >= 2
    /\ main.pc = "spawn"
    /\ NothingStarted
    /\ OutName(0) \in UnreadableAtScan
    /\ \E f \in DOMAIN scan.files \ UnreadableAtScan : f # MergedName
    /\ main.jobs_done_ids # {}
    /\ main.outstanding_jobs # <<>>

--------------------------------------------------------------------------
(* Properties of a live session *)

\* the places of a call in app.events
Places(name) == {i \in 1..Len(app.events) : app.events[i] = name}

\* every call named a was made before every call named b
AllBefore(a, b) == \A i \in Places(a), j \in Places(b) : i < j

\* decide or the submission of an order has failed
SessionFailed ==
    app.raised \in {"KeyError", "ZeroDivisionError", "placeOrder"}

\* C34: in a live session decide is called only after the pair state was
\* loaded from the asset file and only after the broker reported the end of
\* the position list; an order is submitted only after decide returned; the
\* asset file is rewritten only after every order of the session was
\* submitted, and holds the pair state decide left; if decide or the
\* submission of an order fails, the asset file is as the previous session
\* left it.
C34_SessionOrder ==
    /\ Places("decide") # {} =>
          /\ Places("load_pair_info") # {}
          /\ Places("positionEnd") # {}
          /\ AllBefore("load_pair_info", "decide")
          /\ AllBefore("positionEnd", "decide")
          /\ calls = 1
    /\ app.placed # <<>> =>
          /\ Places("decide") # {}
          /\ AllBefore("decide", "placeOrder")
          /\ last.op \in {"decide", "dump_pair_info"}
    /\ asset_file # app.prev_file =>
          /\ Places("dump_pair_info") # {}
          /\ AllBefore("placeOrder", "dump_pair_info")
          /\ AllBefore("decide", "dump_pair_info")
          /\ {app.placed[i][2] : i \in 1..Len(app.placed)}
                = {s \in DOMAIN app.orders_to_place :
                      app.orders_to_place[s] # 0}
          /\ asset_file.dumped = pairs
    /\ SessionFailed => asset_file = app.prev_file
    /\ Places("dump_pair_info") # {} => app.raised = "no"

\* the submission of an order failed after another order of the session was
\* submitted: the pairs in memory hold the new quantities, the asset file
\* those of the previous session
C34_Witness ==
    /\ app.pc = "dead"
    /\ app.raised = "placeOrder"
    /\ app.placed # <<>>
    /\ asset_file = app.prev_file
    /\ asset_file.exists
    /\ pairs # load_pair_info(asset_file.rows)

--------------------------------------------------------------------------
(* Properties of the positions of a backtest run *)

\* the quantity the strategy's position map gives for a stock (a stock that
\* is not in the map is not held)
HeldOf(s) == IF s \in DOMAIN ledger.positions THEN ledger.positions[s] ELSE 0

\* the sum over all pairs of the leg quantities held on stock s
LegsOn(s) ==
    SumSeq([i \in 1..Len(pairs) |->
              (IF pairs[i].X = s THEN pairs[i].X_quantity ELSE 0)
                + (IF pairs[i].Y = s THEN pairs[i].Y_quantity ELSE 0)])

\* C35: throughout a backtest run, before the first day and after each
\* replayed day that ran to its end, the strategy's position map gives for
\* every stock the sum of the leg quantities all pairs hold on that stock,
\* and after a replayed day it has an entry for every stock of a pair.
C35_PositionsAreLegSums ==
    evaluate.pc \in {"replay", "done"} =>
        /\ \A s \in Stocks : HeldOf(s) = LegsOn(s)
        /\ evaluate.decided # <<>> =>
              DOMAIN ledger.positions = StockCodesOf(pairs)

\* two days were replayed and a stock is held by two pairs at once, one
\* short and one long, the map giving the sum
C35_Witness ==
    /\ evaluate.pc \in {"replay", "done"}
    /\ Len(evaluate.decided) >= 2
    /\ \E i, j \in 1..Len(pairs) :
          /\ i # j
          /\ pairs[i].Y = pairs[j].X
          /\ pairs[i].Y_quantity # 0
          /\ pairs[j].X_quantity # 0
          /\ HeldOf(pairs[i].Y) = pairs[i].Y_quantity + pairs[j].X_quantity
    /\ \E s \in Stocks : HeldOf(s) < 0

--------------------------------------------------------------------------
(* Properties of the replay under configured transaction costs *)

\* minus the sum of delta * close over the orders of the day settled last,
\* in tenths of a cent
PlainSum ==
    SumSeq([i \in 1..3 |->
              LET s == <<"A", "B", "C">>[i] IN
              IF s \in DOMAIN ledger.pre.orders
              THEN -(ledger.pre.orders[s] * PriceOf(ledger.pre.stock_data, s))
              ELSE 0])

\* the ledger as it was before the day settled last
LedgerBefore ==
    [cash |-> ledger.pre.cash, positions |-> ledger.pre.positions,
     days |-> ledger.days - 1, pre |-> NoSettlement]

\* what the same day gives a run configured with the costs c
SameDayUnder(c) ==
    LedgerAfter(LedgerBefore, ledger.pre.orders, ledger.pre.stock_data,
                ReplayCosts(c))

\* a run configured with any other costs has the same cash, positions, net
\* worth and leverage after the day
SameUnderAllCosts ==
    \A c \in TxCosts :
        /\ SameDayUnder(c).cash = ledger.cash
        /\ SameDayUnder(c).positions = ledger.positions
        /\ SameDayUnder(c).pre.raised = ledger.pre.raised
        /\ ledger.pre.raised = "no" =>
              /\ net_worth(SameDayUnder(c).positions, ledger.pre.stock_data)
                    = net_worth(ledger.positions, ledger.pre.stock_data)
              /\ Leverage(SameDayUnder(c), ledger.pre.stock_data)
                    = Leverage(ledger, ledger.pre.stock_data)

\* C36 as stated: whatever costs are configured the day's cash, net worth
\* and leverage are the same, and the cash change of a day is exactly minus
\* the sum of delta * close.
C36_Original ==
    ledger.days > 0 =>
        /\ SameUnderAllCosts
        /\ Settled => 10 * (ledger.cash - ledger.pre.cash) = PlainSum

\* C36 (as the code has it): whatever costs are configured the day's cash,
\* positions, net worth and leverage are the same, and the cash change of a
\* day is minus the sum of delta * close rounded to the nearest cent
\* (round(change, 2)), with no transaction cost deducted.
C36_CostsIgnored ==
    ledger.days > 0 =>
        /\ SameUnderAllCosts
        /\ Settled =>
              /\ Abs(10 * (ledger.cash - ledger.pre.cash) - PlainSum) <= 5
              /\ PlainSum % 10 = 0 =>
                    10 * (ledger.cash - ledger.pre.cash) = PlainSum

\* a day was settled in a run configured with a cost per dollar, with a buy
\* and a sell in the order map, and cash moved by the plain sum
C36_Witness ==
    /\ Settled
    /\ evaluate.tx_costs.tx_cost_per_dollar > 0
    /\ \E s \in DOMAIN ledger.pre.orders : ledger.pre.orders[s] > 0
    /\ \E s \in DOMAIN ledger.pre.orders : ledger.pre.orders[s] < 0
    /\ PlainSum # 0
    /\ 10 * (ledger.cash - ledger.pre.cash) = PlainSum

--------------------------------------------------------------------------
(* Properties of decide: the size of a new holding *)

\* pair i was moved to another, non-zero position by the call
Entered(i) ==
    /\ pairs[i].position # last.pre[i].position
    /\ pairs[i].position # 0

\* |Y_quantity| * priceY + |X_quantity| * priceX of pair i after the call,
\* at the prices of the call
GrossNotional(i) ==
    Abs(pairs[i].Y_quantity) * YPrice(i) + Abs(pairs[i].X_quantity) * XPrice(i)

\* money_allocated times the sum of the first |position| allocation
\* fractions, in quarters
TierBudget(i) ==
    pairs[i].money_allocated
        * SumSeq(Prefix(allocations, Abs(pairs[i].position)))

\* C37: on every decide step that moves a pair to a non-zero target, the
\* gross notional of the new holding at the prices of the step is at most
\* money_allocated times the sum of the first |target| allocation fractions,
\* and so at most money_allocated.
C37_NotionalWithinBudget ==
    Decided =>
        \A i \in Processed :
            Entered(i) =>
                /\ 4 * GrossNotional(i) <= TierBudget(i)
                /\ TierBudget(i) <= 4 * pairs[i].money_allocated

\* a pair was moved to the second tier and holds both legs, the notional
\* being more than the budget of the first tier alone
C37_Witness ==
    /\ Decided
    /\ \E i \in Processed :
          /\ Entered(i)
          /\ Abs(pairs[i].position) = 2
          /\ pairs[i].X_quantity # 0
          /\ pairs[i].Y_quantity # 0
          /\ 4 * GrossNotional(i) > pairs[i].money_allocated * allocations[1]
          /\ 4 * GrossNotional(i) < TierBudget(i)


--------------------------------------------------------------------------
(* Properties of the work queue and the results queue *)

\* the ids of the jobs waiting on the work queue
QueuedIds == {q_in[k].id : k \in {j \in 1..Len(q_in) : q_in[j] # None}}

\* the workers that took job id off the work queue and have not put its row
\* on the results queue: they compute it, or died computing it
Holders(id) ==
    {w \in Workers : /\ worker[w].pc \in {"compute", "crashed"}
                     /\ worker[w].job.id = id}

\* the number of places job id is in: the work queue, a worker's hands, the
\* results queue, the coordinator
Copies(id) ==
    Cardinality({k \in 1..Len(q_in) : q_in[k].id = id})
        + Cardinality(Holders(id))
        + Cardinality({k \in 1..Len(q_out) :
                          q_out[k] # None /\ q_out[k].index = id})
        + (IF id \in io.received THEN 1 ELSE 0)

\* every enqueued job is in one place: it was taken by at most one worker,
\* and it gave at most one result message
OnePlace == \A id \in scan.enqueued : Copies(id) = 1

\* all sentinels follow all jobs on the work queue, and once a worker has
\* taken a sentinel there is no job left to take
SentinelsLast ==
    /\ \A i, j \in 1..Len(q_in) : (i < j /\ q_in[i] = None) => q_in[j] = None
    /\ (\E w \in Workers : worker[w].nones > 0) =>
           (QueuedIds = {} /\ main.outstanding_jobs = <<>>)

AllWorkersDead == \A w \in Workers : worker[w].pc = "crashed"

--------------------------------------------------------------------------
(* What a decide call leaves alone *)

\* the fields of a pair that analyze_spread and allocate_money set
SameStatistics(p, q) ==
    /\ p.X = q.X
    /\ p.Y = q.Y
    /\ p.beta = q.beta
    /\ p.spread_mean = q.spread_mean
    /\ p.spread_std = q.spread_std
    /\ p.money_allocated = q.money_allocated

\* pair i on its own: the loop body applied to the pair as it was before the
\* call and the prices of its two legs
Alone(i) == DecidePair(last.pre[i], XPrice(i), YPrice(i))

\* C39: a decide call changes no pair's X, Y, beta, spread_mean, spread_std
\* or money_allocated, and the level, position and quantities of a pair after
\* the call are those the pair's own state before the call and the prices of
\* its own two legs give, whatever other pairs the list holds (a call that
\* returns has processed every pair; a pair the loop did not reach is as it
\* was)
C39_PairsDecidedSeparately ==
    Decided =>
        /\ Len(pairs) = Len(last.pre)
        /\ \A i \in 1..Len(pairs) : SameStatistics(pairs[i], last.pre[i])
        /\ \A i \in Processed :
              /\ last.levels[i] = Alone(i).level
              /\ pairs[i] = Alone(i).pair
        /\ \A i \in (1..Len(pairs)) \ Processed : pairs[i] = last.pre[i]
        /\ (last.raised = "no") => Processed = 1..Len(pairs)

\* a call returned on two pairs that share a stock: the first traded, the
\* second, holding a position already, did not
C39_Witness ==
    /\ Decided
    /\ last.raised = "no"
    /\ Len(pairs) = 2
    /\ {pairs[1].X, pairs[1].Y} \cap {pairs[2].X, pairs[2].Y} # {}
    /\ last.deltas[1] # <<0, 0>>
    /\ last.deltas[2] = <<0, 0>>
    /\ pairs[2].position # 0


--------------------------------------------------------------------------
(* What the coordinator holds in memory only *)

\* the results the coordinator has received that are in no file
Unpersisted == io.received \ PersistedIds

\* the ids of the rows put in the buffer since the last flush
UnflushedTail ==
    {io.output_df[i].index :
        i \in (Len(io.output_df) - (io.num_jobs_completed % update_interval) + 1)
                ..Len(io.output_df)}

\* while the coordinator waits on the results queue, the received results in
\* no file are the rows buffered since the last flush, fewer than
\* update_interval of them
FewUnpersisted ==
    io.pc = "loop" =>
        /\ Cardinality(Unpersisted) <= update_interval - 1
        /\ Cardinality(Unpersisted) = io.num_jobs_completed % update_interval
        /\ Unpersisted = UnflushedTail

\* a run started while the coordinator of the run before still waits on the
\* results queue finds, of the results that coordinator received, all but
\* the unpersisted ones
OnlyUnpersistedLost ==
    (io.pc = "loop" /\ run' = run + 1) =>
        main'.jobs_done_ids \cap io.received = io.received \ Unpersisted

==========================================================================
